---- MODULE Spec2Model ----
(***************************************************************************)
(* Kernel communication and execution correlation of jupyter-tui.          *)
(*                                                                         *)
(* Thirteen specifications share this module:                              *)
(*   Spec              the foreground loop of App (src/src/app.rs) while   *)
(*                     keys edit the cell list and execute cells, and      *)
(*                     handle_kernel_message applies IOPub events to       *)
(*                     cells through executing_cells.                      *)
(*   OutputSpec        the same loop on a one-cell notebook, with every    *)
(*                     payload of every event kind, restart, interrupt and *)
(*                     the change of the cell's type.                      *)
(*   PairSpec          the same loop on two code cells that no key edits.  *)
(*   MixedSpec         PairSpec on two cells of any types (code, markdown, *)
(*                     raw).                                               *)
(*   EchoSpec          two code cells executed one at a time by a kernel   *)
(*                     that echoes the input and broadcasts its status.    *)
(*   CompleteSpec      KernelClient::complete (src/src/kernel/client.rs):  *)
(*                     the bounded read loop on the shell channel.         *)
(*   CompleteFairSpec  CompleteSpec where time passes and the task that    *)
(*                     runs complete() is scheduled.                       *)
(*   ClientSpec        CompleteSpec with the other operations of           *)
(*                     KernelClient: request_kernel_info, interrupt and    *)
(*                     shutdown.                                           *)
(*   WaitSpec          the foreground loop while request_completion waits  *)
(*                     in complete() and the kernel goes on publishing.    *)
(*   LiveSpec          a responsive kernel serving the requests of the     *)
(*                     client, the listener task and the forwarder, each   *)
(*                     scheduled again and again.                          *)
(*   PipeSpec          the path of an iopub message from the kernel        *)
(*                     through the listener task and run_event_loop        *)
(*                     (src/src/event.rs) to handle_event, with ticks and  *)
(*                     :restart between the messages.                      *)
(*   ManagerSpec       KernelManager (src/src/kernel/manager.rs): start,   *)
(*                     restart, shutdown, drop and the connection file.    *)
(*   ShutdownSpec      the foreground loop up to and through               *)
(*                     App::shutdown: the shutdown request, then the       *)
(*                     manager's shutdown.                                 *)
(*                                                                         *)
(* Conventions.  Option<T> is a sequence of length 0 (None) or 1 (Some).   *)
(* A String built by push_str is a sequence of text tokens.  Vec indices   *)
(* are 0-based as in the source; At(cells, i) reads cells[i].  UUIDs       *)
(* (msg_id, cell id) are fresh naturals taken from counters.  Cell source  *)
(* text, the editor, modes and status_message are not modelled.            *)
(***************************************************************************)
EXTENDS Integers, Sequences, FiniteSets, TLC

VARIABLES
    cells,            \* App.notebook.cells : Vec<Cell>
    selected_cell,    \* App.selected_cell (0-based)
    executing_cells,  \* App.executing_cells : HashMap<msg_id, cell index>
    kernel_status,    \* App.kernel_status
    yanked_cell,      \* App.yanked_cell : Option<Cell>
    nextMsgId,        \* the msg_id (a fresh uuid) of the next request that is sent
    nextCellId,       \* next fresh cell id (Uuid::new_v4 in Cell::new_*, paste)
    issuer,           \* history: in-flight msg_id -> id of the cell that sent the request
    stale,            \* history: msg_ids that were in the table when restart_kernel cleared it
    last,             \* history: the operation performed by the last step
    shellQueue,       \* replies waiting on the shell socket, oldest first
    awaiting,         \* shell requests the kernel has not replied to yet
    cpc,              \* position of complete(): idle, reading, ok, timeout, read_error, send_error
    cMsgId,           \* msg_id of the complete_request being waited for
    cResult,          \* Option: the reply complete() returned
    cSkipped,         \* history: complete() has read and discarded a reply in this call
    now,              \* time elapsed since complete() computed its deadline, in ticks
    listeners,        \* state of the iopub listener task of each connection, oldest first
    sock,             \* per listener: messages its iopub socket holds, not yet read
    chan,             \* per listener: the mpsc queue connect() returned the receiver of
    attached,         \* the listener connect() attached to the running process, 0 if none
    eventQueue,       \* the AppEvent channel read by the foreground loop
    emitted,          \* number of iopub messages the kernel has published
    inputs,           \* number of key and tick events run_event_loop has forwarded
    processed,        \* history: the kernel messages the foreground loop has handled
    manager,          \* Option<KernelManager>: process, connection_info, connection_file_path
    disk,             \* the connection files on disk: path -> content
    nextPath,         \* next fresh uuid of KernelManager::start (file name, key)
    spc               \* position of App::shutdown: idle, sent, send_failed, done

appVars == <<cells, selected_cell, executing_cells, kernel_status, yanked_cell,
             nextCellId, issuer, stale>>
shellVars == <<shellQueue, awaiting, cpc, cMsgId, cResult, cSkipped, now>>
pipeVars == <<listeners, sock, chan, attached, eventQueue, emitted, inputs, processed>>
mgrVars == <<manager, disk, nextPath, spc>>
envVars == <<pipeVars, mgrVars>>
vars == <<appVars, shellVars, envVars, nextMsgId, last>>

----------------------------------------------------------------------------
(* Bounds of the model. *)

MaxCells == 2      \* cells in the notebook
MaxCellId == 3     \* cell ids ever created
MaxMsgs == 4       \* messages ever sent by the client
MaxOutputs == 2    \* output records and appended text tokens in the notebook
MaxQueue == 3      \* replies waiting on the shell socket, items in an mpsc queue
MaxListeners == 2  \* connections made to the kernel, the first included
MaxEmit == 3       \* messages the kernel publishes
MaxInputs == 2     \* key and tick events
MaxStarts == 3     \* calls of KernelManager::start, the one of App::new included

StreamNames == {"stdout", "stderr"}
Texts == {"hi", "yo"}
StatusValues == {"idle", "busy", "starting"}
Counts == {1, 2}

----------------------------------------------------------------------------
(* Data model: src/src/notebook/model.rs *)

None == <<>>
Some(x) == <<x>>

new_code(id) ==
    [id |-> id, cell_type |-> "Code", outputs |-> <<>>,
     execution_count |-> None, execution_state |-> "Idle"]

(* Cell::clear_outputs *)
clear_outputs(cell) ==
    [cell EXCEPT !.outputs = <<>>, !.execution_state = "Idle"]

At(s, i) == s[i + 1]
SetAt(s, i, v) == [s EXCEPT ![i + 1] = v]
InsertAt(s, i, v) == SubSeq(s, 1, i) \o <<v>> \o SubSeq(s, i + 1, Len(s))
RemoveAt(s, i) == SubSeq(s, 1, i) \o SubSeq(s, i + 2, Len(s))
Min(a, b) == IF a <= b THEN a ELSE b

(* Notebook::insert_cell_after / insert_cell_before / delete_cell *)
insert_cell_after(cs, index, cell) == InsertAt(cs, Min(index + 1, Len(cs)), cell)
insert_cell_before(cs, index, cell) == InsertAt(cs, Min(index, Len(cs)), cell)
delete_cell(cs, index) ==
    IF Len(cs) <= 1 THEN [removed |-> None, cells |-> cs]
    ELSE IF index < Len(cs)
         THEN [removed |-> Some(At(cs, index)), cells |-> RemoveAt(cs, index)]
         ELSE [removed |-> None, cells |-> cs]

----------------------------------------------------------------------------
(* KernelManager, src/src/kernel/manager.rs.  A uuid is a fresh natural:   *)
(* start number n takes key n and the file name kernel-n.json.  The        *)
(* process is "alive", "killed" (by the manager) or "exited" (by itself).  *)
(* process.kill() and remove_file() do what they say when the process is   *)
(* alive and the file exists; their results are dropped by the code        *)
(* (`let _ =`).                                                            *)

(* ConnectionInfo of manager.rs:45-56: the ports and the key of start n. *)
ConnectionInfo(n) ==
    [ip |-> "127.0.0.1", ports |-> n, key |-> n,
     signature_scheme |-> "hmac-sha256", kernel_name |-> "python3"]

(* serde_json::to_string_pretty(&connection_info): the text of the whole   *)
(* descriptor.                                                             *)
to_string_pretty(info) == [json |-> Some(info)]

NoFiles == [f \in {} |-> f]
FileWritten(d, path, content) ==
    [f \in DOMAIN d \cup {path} |-> IF f = path THEN content ELSE d[f]]
FileRemoved(d, path) == [f \in DOMAIN d \ {path} |-> d[f]]

(* A failed tokio::fs::write leaves the file as it was, or truncated. *)
Truncated == [json |-> None]

(* The manager that start number n returns (manager.rs:83-87). *)
Started(n) ==
    [process |-> "alive", connection_info |-> ConnectionInfo(n),
     connection_file_path |-> n]

(* self.process.kill(): manager.rs:98, 110 *)
Kill(process) == IF process = "alive" THEN "killed" ELSE process

(* The points where start() returns an error (manager.rs:31-78). *)
StartFailures ==
    {"no_kernelspecs", "no_kernelspec", "no_ports", "write_failed",
     "write_truncated", "command_failed", "spawn_failed"}

(* KernelManager::start, manager.rs:24-88: the files on disk afterwards.   *)
(* fail is None or Some of a point of StartFailures.                       *)
start_disk(d, n, fail) ==
    IF fail \in {Some("no_kernelspecs"), Some("no_kernelspec"), Some("no_ports"),
                 Some("write_failed")}
    THEN d
    ELSE IF fail = Some("write_truncated") THEN FileWritten(d, n, Truncated)
    ELSE FileWritten(d, n, to_string_pretty(ConnectionInfo(n)))

start_result(n, fail) == IF fail = None THEN Some(Started(n)) ELSE None

(* Variant of start_effects: the ports are reserved before the kernelspec  *)
(* is looked up.                                                           *)
start_reserves_first(fail) ==
    IF fail = Some("no_kernelspecs") THEN {}
    ELSE IF fail \in {Some("no_kernelspec"), Some("no_ports"), Some("write_failed")}
    THEN {"ports"}
    ELSE IF fail = None THEN {"ports", "file", "process"} ELSE {"ports", "file"}

(* What start() has done when it returns, in the order of manager.rs:30-78: *)
(* discovery and find_kernelspec (30-35), peek_ports (39-41), the write    *)
(* of the connection file (66), command and spawn (69-78).                 *)
start_effects(fail) ==
    IF fail \in {Some("no_kernelspecs"), Some("no_kernelspec"), Some("no_ports")} THEN {}
    ELSE IF fail = Some("write_failed") THEN {"ports"}
    ELSE IF fail = None THEN {"ports", "file", "process"} ELSE {"ports", "file"}

(* The points where restart() returns an error (manager.rs:121-137). *)
RestartFailures ==
    {"no_kernelspec", "write_failed", "write_truncated", "command_failed",
     "spawn_failed"}

(* Variant of restart_manager: a restart that succeeds takes new ports    *)
(* and a new key.                                                          *)
restart_regenerates(m, fail) ==
    [m EXCEPT !.process = IF fail = None THEN "alive" ELSE Kill(m.process),
              !.connection_info = IF fail = None THEN ConnectionInfo(@.key + 1) ELSE @]

(* KernelManager::restart, manager.rs:108-143 *)
restart_manager(m, fail) ==
    [m EXCEPT !.process = IF fail = None THEN "alive" ELSE Kill(m.process)]

restart_disk(m, d, fail) ==
    IF fail \in {Some("no_kernelspec"), Some("write_failed")} THEN d
    ELSE IF fail = Some("write_truncated")
         THEN FileWritten(d, m.connection_file_path, Truncated)
    ELSE FileWritten(d, m.connection_file_path, to_string_pretty(m.connection_info))

(* KernelManager::shutdown, manager.rs:96-104 *)
shutdown_manager(m) == [m EXCEPT !.process = Kill(m.process)]
shutdown_disk(m, d) == FileRemoved(d, m.connection_file_path)

(* The results that shutdown() drops: kill() of a process that is not     *)
(* alive may return either, remove_file of an absent file returns Err.     *)
Results == {"Ok", "Err"}
kill_results(process) == IF process = "alive" THEN {"Ok"} ELSE Results
remove_result(d, path) == IF path \in DOMAIN d THEN "Ok" ELSE "Err"

(* Variant of shutdown_result: the errors of kill and remove_file are      *)
(* returned.                                                               *)
shutdown_propagates(killed, removed) ==
    IF killed = "Ok" /\ removed = "Ok" THEN "Ok" ELSE "Err"

(* What shutdown() returns: manager.rs:98-103 *)
shutdown_result(killed, removed) == "Ok"

(* Variant of drop_disk: dropping the manager only kills the process.     *)
drop_only_kills(m, d) == d

(* Drop for KernelManager, manager.rs:152-157; the Child was spawned with  *)
(* kill_on_drop(true) (manager.rs:76, 135).                                *)
drop_disk(m, d) == FileRemoved(d, m.connection_file_path)

(* How drop() ends: the result of remove_file is discarded with `let _`    *)
(* (manager.rs:155), so an absent file is no panic.                        *)
drop_result(removed) == "returns"

----------------------------------------------------------------------------
(* Inbound messages: KernelMessage, src/src/kernel/client.rs:15-22 *)

IssuedIds == 1..(nextMsgId - 1)
Parents == {None} \cup {Some(i) : i \in IssuedIds}

IoPubEvents ==
    [kind : {"status"}, parent : Parents, state : StatusValues]
    \cup [kind : {"stream"}, parent : Parents, name : StreamNames, text : Texts]
    \cup [kind : {"execute_result"}, parent : Parents, count : Counts]
    \cup [kind : {"error", "display_data", "execute_input", "other"}, parent : Parents]

KernelMessages ==
    IoPubEvents \cup [kind : {"shell_reply", "iopub_error"}, parent : {None}]

(* Messages with one payload per kind. *)
OnePayload(m) ==
    /\ m.kind = "stream" => m.name = "stdout" /\ m.text = "hi"
    /\ m.kind = "execute_result" => m.count = 1

CoreMessages ==
    {m \in KernelMessages :
        /\ OnePayload(m)
        /\ m.kind \in {"status", "stream"}
        /\ m.kind = "status" => m.state = "idle"}

PairMessages ==
    {m \in KernelMessages :
        /\ OnePayload(m)
        /\ m.kind \in {"status", "stream", "execute_result"}}

----------------------------------------------------------------------------
(* HashMap<String, usize> operations on executing_cells *)

EmptyMap == [k \in {} |-> k]
MapInsert(m, k, v) == [x \in DOMAIN m \cup {k} |-> IF x = k THEN v ELSE m[x]]
MapRemove(m, k) == [x \in DOMAIN m \ {k} |-> m[x]]

(* Variant of Lookup: an event that matches no entry goes to cell 0. *)
LookupOrFirst(tbl, parent) ==
    IF parent # None /\ parent[1] \in DOMAIN tbl THEN Some(tbl[parent[1]]) ELSE Some(0)

(* parent_msg_id.and_then(|id| self.executing_cells.get(id).copied()) *)
Lookup(tbl, parent) ==
    IF parent # None /\ parent[1] \in DOMAIN tbl THEN Some(tbl[parent[1]]) ELSE None

----------------------------------------------------------------------------
(* App::handle_kernel_message, src/src/app.rs:258-377.  Each operator      *)
(* returns the cells / table after one match arm.                          *)

(* Status arm, cell part (app.rs:275-287): the entry is removed whenever   *)
(* the status is idle and the parent is a key; the cell is marked Done     *)
(* only if the index is in range and the cell is still Running.            *)
(* Variant of StatusCells: a matching idle status marks the cell Done      *)
(* whatever its state.                                                     *)
StatusCellsAlwaysDone(cs, tbl, ev) ==
    LET hit == Lookup(tbl, ev.parent) IN
    IF ev.state = "idle" /\ hit # None /\ hit[1] < Len(cs)
    THEN SetAt(cs, hit[1], [At(cs, hit[1]) EXCEPT !.execution_state = "Done"])
    ELSE cs

(* Variant of StatusCells: a matching idle status marks every Running cell *)
(* Done, not only the cell the entry names.                                *)
StatusCellsAllRunning(cs, tbl, ev) ==
    IF ev.state = "idle" /\ Lookup(tbl, ev.parent) # None
    THEN [i \in 1..Len(cs) |->
            IF cs[i].execution_state = "Running"
            THEN [cs[i] EXCEPT !.execution_state = "Done"] ELSE cs[i]]
    ELSE cs

StatusCells(cs, tbl, ev) ==
    LET hit == Lookup(tbl, ev.parent) IN
    IF ev.state = "idle" /\ hit # None /\ hit[1] < Len(cs)
          /\ At(cs, hit[1]).execution_state = "Running"
    THEN SetAt(cs, hit[1], [At(cs, hit[1]) EXCEPT !.execution_state = "Done"])
    ELSE cs

(* Variant of StatusTable: a status of any value removes the entry. *)
StatusTableAnyValue(tbl, ev) ==
    IF ev.parent # None THEN MapRemove(tbl, ev.parent[1]) ELSE tbl

StatusTable(tbl, ev) ==
    IF ev.state = "idle" /\ ev.parent # None
    THEN MapRemove(tbl, ev.parent[1])
    ELSE tbl

(* Index (1-based) of the first Stream record named name, 0 if none:       *)
(* outputs.iter_mut().any(..) stops at the first record it appends to.     *)
FirstStream(outs, name) ==
    LET hits == {i \in 1..Len(outs) : outs[i].t = "stream" /\ outs[i].name = name} IN
    IF hits = {} THEN 0 ELSE CHOOSE i \in hits : \A j \in hits : i <= j

(* Variant of StreamOutputs: every event pushes a record of its own. *)
StreamOutputsPushed(outs, name, text) ==
    Append(outs, [t |-> "stream", name |-> name, text |-> <<text>>])

(* Variant of StreamOutputs: the text is appended only when the last      *)
(* record is a stream record of that name; otherwise a record is pushed.   *)
StreamOutputsLastOnly(outs, name, text) ==
    IF outs # <<>> /\ outs[Len(outs)].t = "stream" /\ outs[Len(outs)].name = name
    THEN [outs EXCEPT ![Len(outs)] = [@ EXCEPT !.text = @ \o <<text>>]]
    ELSE Append(outs, [t |-> "stream", name |-> name, text |-> <<text>>])

(* Variant of StreamOutputs: the record of the name is taken out of its   *)
(* place and put back, with the new text, at the end.                      *)
StreamOutputsMoved(outs, name, text) ==
    LET i == IF \E k \in 1..Len(outs) : outs[k].t = "stream" /\ outs[k].name = name
             THEN CHOOSE k \in 1..Len(outs) : outs[k].t = "stream" /\ outs[k].name = name
             ELSE 0
    IN IF i # 0
       THEN Append(SubSeq(outs, 1, i - 1) \o SubSeq(outs, i + 1, Len(outs)),
                   [outs[i] EXCEPT !.text = @ \o <<text>>])
       ELSE Append(outs, [t |-> "stream", name |-> name, text |-> <<text>>])

(* StreamContent arm, app.rs:289-314 *)
StreamOutputs(outs, name, text) ==
    LET i == FirstStream(outs, name) IN
    IF i # 0
    THEN [outs EXCEPT ![i] = [@ EXCEPT !.text = @ \o <<text>>]]
    ELSE Append(outs, [t |-> "stream", name |-> name, text |-> <<text>>])

(* Variant of StreamCells: an index past the end goes to the last cell.   *)
StreamCellsClamped(cs, tbl, ev) ==
    LET hit == Lookup(tbl, ev.parent)
        idx == IF hit # None THEN Min(hit[1], Len(cs) - 1) ELSE 0
    IN IF hit # None
       THEN SetAt(cs, idx, [At(cs, idx) EXCEPT !.outputs = StreamOutputs(@, ev.name, ev.text)])
       ELSE cs

StreamCells(cs, tbl, ev) ==
    LET hit == Lookup(tbl, ev.parent) IN
    IF hit # None /\ hit[1] < Len(cs)
    THEN SetAt(cs, hit[1],
               [At(cs, hit[1]) EXCEPT !.outputs = StreamOutputs(@, ev.name, ev.text)])
    ELSE cs

(* Variant of ResultCells: the record is appended, the counter of the     *)
(* cell is left as it was.                                                 *)
ResultCellsUnstamped(cs, tbl, ev) ==
    LET hit == Lookup(tbl, ev.parent) IN
    IF hit # None /\ hit[1] < Len(cs)
    THEN SetAt(cs, hit[1],
               [At(cs, hit[1]) EXCEPT
                   !.outputs = Append(@, [t |-> "execute_result",
                                          execution_count |-> ev.count])])
    ELSE cs

(* ExecuteResult arm, app.rs:315-334 *)
ResultCells(cs, tbl, ev) ==
    LET hit == Lookup(tbl, ev.parent) IN
    IF hit # None /\ hit[1] < Len(cs)
    THEN SetAt(cs, hit[1],
               [At(cs, hit[1]) EXCEPT
                   !.outputs = Append(@, [t |-> "execute_result",
                                          execution_count |-> ev.count]),
                   !.execution_count = Some(ev.count)])
    ELSE cs

(* ErrorOutput arm, app.rs:335-349 *)
ErrorCells(cs, tbl, ev) ==
    LET hit == Lookup(tbl, ev.parent) IN
    IF hit # None /\ hit[1] < Len(cs)
    THEN SetAt(cs, hit[1],
               [At(cs, hit[1]) EXCEPT
                   !.outputs = Append(@, [t |-> "error"]),
                   !.execution_state = "Error"])
    ELSE cs

(* DisplayData arm, app.rs:350-365 *)
DisplayCells(cs, tbl, ev) ==
    LET hit == Lookup(tbl, ev.parent) IN
    IF hit # None /\ hit[1] < Len(cs)
    THEN SetAt(cs, hit[1],
               [At(cs, hit[1]) EXCEPT !.outputs = Append(@, [t |-> "display_data"])])
    ELSE cs

KernelCells(cs, tbl, msg) ==
    CASE msg.kind = "status" -> StatusCells(cs, tbl, msg)
      [] msg.kind = "stream" -> StreamCells(cs, tbl, msg)
      [] msg.kind = "execute_result" -> ResultCells(cs, tbl, msg)
      [] msg.kind = "error" -> ErrorCells(cs, tbl, msg)
      [] msg.kind = "display_data" -> DisplayCells(cs, tbl, msg)
      [] OTHER -> cs

KernelTable(tbl, msg) ==
    IF msg.kind = "status" THEN StatusTable(tbl, msg) ELSE tbl

(* Variant of KernelStatus: only a status event without a parent sets the  *)
(* kernel status.                                                          *)
BroadcastStatusOnly(ks, msg) ==
    IF msg.kind = "status" /\ msg.parent = None THEN msg.state ELSE ks

(* Variant of KernelStatus: the echo of the input marks the kernel busy.  *)
KernelStatusEchoBusy(ks, msg) ==
    IF msg.kind = "status" THEN msg.state
    ELSE IF msg.kind = "execute_input" THEN "busy" ELSE ks

KernelStatus(ks, msg) ==
    IF msg.kind = "status" THEN msg.state ELSE ks

(* Size of the outputs of the notebook: one per record, and one more per  *)
(* text token a stream record holds beyond its first.                      *)
RECURSIVE OutputsSize(_)
OutputsSize(outs) ==
    IF outs = <<>> THEN 0
    ELSE (IF Head(outs).t = "stream" THEN Len(Head(outs).text) ELSE 1)
         + OutputsSize(Tail(outs))

RECURSIVE NotebookSize(_)
NotebookSize(cs) ==
    IF cs = <<>> THEN 0 ELSE OutputsSize(Head(cs).outputs) + NotebookSize(Tail(cs))

CellsWithin(cs) == NotebookSize(cs) <= MaxOutputs

(* How the parent of a message relates to the table. *)
HitClass(tbl, orphans, msg) ==
    IF msg.parent = None THEN "none"
    ELSE IF msg.parent[1] \in DOMAIN tbl THEN "hit"
    ELSE IF msg.parent[1] \in orphans THEN "stale" ELSE "miss"

KernelEffects(msg) ==
    /\ cpc = "idle"
    /\ cells' = KernelCells(cells, executing_cells, msg)
    /\ CellsWithin(cells')
    /\ executing_cells' = KernelTable(executing_cells, msg)
    /\ kernel_status' = KernelStatus(kernel_status, msg)
    /\ last' = [op |-> "kernel", hit |-> HitClass(executing_cells, stale, msg)]
    /\ issuer' = [m \in DOMAIN executing_cells' |-> issuer[m]]
    /\ UNCHANGED <<selected_cell, yanked_cell, nextCellId, stale, nextMsgId, shellVars>>

(* handle_kernel_message applied to a message, however it was delivered. *)
HandleKernelMessage(msg) == KernelEffects(msg) /\ UNCHANGED envVars

----------------------------------------------------------------------------
(* Requests: every JupyterMessage built by the client takes a fresh msg_id *)
(* (src/src/kernel/client.rs:93-95, 147-152).  The counter numbers the     *)
(* execute and complete requests that were sent: the id of a request whose *)
(* send failed is dropped with it, and the ids of kernel_info and          *)
(* interrupt requests are never stored, so that an event naming one of     *)
(* them behaves like an event naming msg_id 1, the kernel_info_request of  *)
(* App::new.                                                               *)

(* Variant of NewMsgId: the id of the previous execute request is used     *)
(* again.                                                                  *)
RepeatedMsgId(next) == IF next > 2 THEN next - 1 ELSE next

(* Variant of NewMsgId: every execute request carries the id of the first. *)
FirstMsgIdAgain(next) == 2

NewMsgId(next) == next

(* Variant of StartCell: the outputs of the previous run are kept. *)
StartCellKeepsOutputs(cell) == [cell EXCEPT !.execution_state = "Running"]

(* cell.clear_outputs(); cell.execution_state = Running  (app.rs:398-399)  *)
StartCell(cell) == [clear_outputs(cell) EXCEPT !.execution_state = "Running"]

(* App::execute_selected_cell, app.rs:380-409.  sendOk is the outcome of   *)
(* kernel_client.execute(): on failure `?` returns before the insert.      *)
ExecuteSelected(cs, tbl, sel, next, sendOk) ==
    IF At(cs, sel).cell_type # "Code"
    THEN [cells |-> cs, table |-> tbl, next |-> next, sent |-> <<>>, ok |-> TRUE]
    ELSE LET id == NewMsgId(next) IN
         [cells |-> SetAt(cs, sel, StartCell(At(cs, sel))),
          table |-> IF sendOk THEN MapInsert(tbl, id, sel) ELSE tbl,
          next  |-> IF sendOk THEN next + 1 ELSE next,
          sent  |-> IF sendOk THEN <<[id |-> id, idx |-> sel]>> ELSE <<>>,
          ok    |-> sendOk]

(* App::execute_all_cells, app.rs:412-442: the loop from index idx on.     *)
(* failAt is None, or Some(i) when the send for cell i fails.              *)
RECURSIVE ExecuteAllFrom(_, _, _, _, _)
ExecuteAllFrom(cs, tbl, next, idx, failAt) ==
    IF idx >= Len(cs)
    THEN [cells |-> cs, table |-> tbl, next |-> next, sent |-> <<>>, ok |-> TRUE]
    ELSE IF At(cs, idx).cell_type # "Code"
    THEN ExecuteAllFrom(cs, tbl, next, idx + 1, failAt)
    ELSE LET id == NewMsgId(next)
             started == SetAt(cs, idx, StartCell(At(cs, idx)))
         IN IF failAt = Some(idx)
            THEN [cells |-> started, table |-> tbl, next |-> next,
                  sent |-> <<>>, ok |-> FALSE]
            ELSE LET rest == ExecuteAllFrom(started, MapInsert(tbl, id, idx),
                                            next + 1, idx + 1, failAt)
                 IN [rest EXCEPT !.sent = <<[id |-> id, idx |-> idx]>> \o @]

ExecuteAll(cs, tbl, next, failAt) == ExecuteAllFrom(cs, tbl, next, 0, failAt)

CodeIndices(cs) == {i \in 0..(Len(cs) - 1) : At(cs, i).cell_type = "Code"}
FailPoints(cs) == {None} \cup {Some(i) : i \in CodeIndices(cs)}

(* History kept beside a handler that sent execute requests. *)
LogIds(sent) == {sent[i].id : i \in 1..Len(sent)}
IdxOf(sent, m) == sent[CHOOSE i \in 1..Len(sent) : sent[i].id = m].idx
IssuerAfter(iss, cs, sent, tbl) ==
    [m \in DOMAIN tbl |->
        IF m \in LogIds(sent) THEN At(cs, IdxOf(sent, m)).id ELSE iss[m]]

----------------------------------------------------------------------------
(* Key handlers in Normal mode, src/src/input/handler.rs:55-205, and the   *)
(* commands of execute_command, handler.rs:777-875.                        *)

(* j, k, g, G, :Nc -- selected_cell moves to another cell *)
SelectCell(n) ==
    /\ cpc = "idle"
    /\ n \in 0..(Len(cells) - 1)
    /\ n # selected_cell
    /\ selected_cell' = n
    /\ last' = [op |-> "select"]
    /\ UNCHANGED <<envVars, cells, executing_cells, kernel_status, yanked_cell, nextCellId,
                   issuer, stale, nextMsgId, shellVars>>

(* o: insert a new code cell below (handler.rs:103-110) *)
InsertBelow ==
    /\ cpc = "idle"
    /\ Len(cells) < MaxCells /\ nextCellId <= MaxCellId
    /\ cells' = insert_cell_after(cells, selected_cell, new_code(nextCellId))
    /\ selected_cell' = selected_cell + 1
    /\ nextCellId' = nextCellId + 1
    /\ last' = [op |-> "insert"]
    /\ UNCHANGED <<envVars, executing_cells, kernel_status, yanked_cell,
                   issuer, stale, nextMsgId, shellVars>>

(* O: insert a new code cell above (handler.rs:111-117) *)
InsertAbove ==
    /\ cpc = "idle"
    /\ Len(cells) < MaxCells /\ nextCellId <= MaxCellId
    /\ cells' = insert_cell_before(cells, selected_cell, new_code(nextCellId))
    /\ nextCellId' = nextCellId + 1
    /\ last' = [op |-> "insert"]
    /\ UNCHANGED <<envVars, selected_cell, executing_cells, kernel_status, yanked_cell,
                   issuer, stale, nextMsgId, shellVars>>

(* The fields of a yanked cell that a paste reads: it takes a fresh id and *)
(* clear_outputs() resets outputs and state (handler.rs:138-140).          *)
Yanked(cell) == [cell_type |-> cell.cell_type, execution_count |-> cell.execution_count]

(* d: delete the selected cell and yank it (handler.rs:118-127) *)
DeleteCell ==
    /\ cpc = "idle"
    /\ LET r == delete_cell(cells, selected_cell) IN
       /\ r.removed # None
       /\ cells' = r.cells
       /\ yanked_cell' = Some(Yanked(r.removed[1]))
       /\ selected_cell' = IF selected_cell >= Len(r.cells)
                           THEN Len(r.cells) - 1 ELSE selected_cell
    /\ last' = [op |-> "delete"]
    /\ UNCHANGED <<envVars, executing_cells, kernel_status, nextCellId,
                   issuer, stale, nextMsgId, shellVars>>

(* y: yank the selected cell (handler.rs:130-133) *)
YankCell ==
    /\ cpc = "idle"
    /\ yanked_cell' = Some(Yanked(At(cells, selected_cell)))
    /\ last' = [op |-> "yank"]
    /\ UNCHANGED <<envVars, cells, selected_cell, executing_cells, kernel_status, nextCellId,
                   issuer, stale, nextMsgId, shellVars>>

Pasted(y, id) ==
    [id |-> id, cell_type |-> y.cell_type, outputs |-> <<>>,
     execution_count |-> y.execution_count, execution_state |-> "Idle"]

(* p: paste the yanked cell below (handler.rs:136-147) *)
PasteBelow ==
    /\ cpc = "idle"
    /\ yanked_cell # None
    /\ Len(cells) < MaxCells /\ nextCellId <= MaxCellId
    /\ cells' = insert_cell_after(cells, selected_cell, Pasted(yanked_cell[1], nextCellId))
    /\ selected_cell' = selected_cell + 1
    /\ nextCellId' = nextCellId + 1
    /\ last' = [op |-> "paste"]
    /\ UNCHANGED <<envVars, executing_cells, kernel_status, yanked_cell,
                   issuer, stale, nextMsgId, shellVars>>

(* P: paste the yanked cell above (handler.rs:150-160) *)
PasteAbove ==
    /\ cpc = "idle"
    /\ yanked_cell # None
    /\ Len(cells) < MaxCells /\ nextCellId <= MaxCellId
    /\ cells' = insert_cell_before(cells, selected_cell, Pasted(yanked_cell[1], nextCellId))
    /\ nextCellId' = nextCellId + 1
    /\ last' = [op |-> "paste"]
    /\ UNCHANGED <<envVars, selected_cell, executing_cells, kernel_status, yanked_cell,
                   issuer, stale, nextMsgId, shellVars>>

(* m: toggle the cell type and clear its outputs (handler.rs:175-185) *)
ToggleType ==
    /\ cpc = "idle"
    /\ LET c == At(cells, selected_cell)
           t == IF c.cell_type = "Code" THEN "Markdown" ELSE "Code"
       IN cells' = SetAt(cells, selected_cell, clear_outputs([c EXCEPT !.cell_type = t]))
    /\ last' = [op |-> "toggle"]
    /\ UNCHANGED <<envVars, selected_cell, executing_cells, kernel_status, yanked_cell, nextCellId,
                   issuer, stale, nextMsgId, shellVars>>

(* x, X, Shift+Enter: execute the selected cell (handler.rs:98-100, 163-172) *)
ExecuteCell(sendOk) ==
    /\ cpc = "idle"
    /\ LET r == ExecuteSelected(cells, executing_cells, selected_cell, nextMsgId, sendOk) IN
       /\ r.next <= MaxMsgs + 1
       /\ cells' = r.cells
       /\ executing_cells' = r.table
       /\ nextMsgId' = r.next
       /\ issuer' = IssuerAfter(issuer, cells, r.sent, r.table)
       /\ last' = [op |-> "execute", ok |-> r.ok]
    /\ UNCHANGED <<envVars, selected_cell, kernel_status, yanked_cell, nextCellId, stale,
                   shellVars>>

(* :run-all (handler.rs:804-806) *)
RunAll(failAt) ==
    /\ cpc = "idle"
    /\ failAt \in FailPoints(cells)
    /\ LET r == ExecuteAll(cells, executing_cells, nextMsgId, failAt) IN
       /\ r.next <= MaxMsgs + 1
       /\ cells' = r.cells
       /\ executing_cells' = r.table
       /\ nextMsgId' = r.next
       /\ issuer' = IssuerAfter(issuer, cells, r.sent, r.table)
       /\ last' = [op |-> "run_all", ok |-> r.ok]
    /\ UNCHANGED <<envVars, selected_cell, kernel_status, yanked_cell, nextCellId, stale,
                   shellVars>>

(* The ways App::restart_kernel (app.rs:445-478) ends: at a point where    *)
(* kernel_manager.restart() returns Err, "connect_failed"                  *)
(* (KernelClient::connect returns Err) or "ok".                            *)
RestartOutcomes == RestartFailures \cup {"connect_failed", "ok"}

(* The failure point of kernel_manager.restart() in an outcome. *)
ManagerFailure(outcome) == IF outcome \in RestartFailures THEN Some(outcome) ELSE None

(* Variant of RestartTable: the entries survive the restart. *)
KeptTable(tbl) == tbl

RestartTable(tbl) == EmptyMap

(* Variant of ReconnectListeners: the connection is installed before the  *)
(* result of connect() is looked at.                                       *)
ReconnectsUnchecked(ls, outcome) ==
    IF outcome \in {"ok", "connect_failed"} THEN Append(ls, "running") ELSE ls

(* app.rs:454-470: connect() spawns the iopub listener of the new          *)
(* connection and restart_kernel the task that forwards its queue; the     *)
(* listeners of earlier connections are left as they are.                  *)
ReconnectListeners(ls, outcome) ==
    IF outcome = "ok" THEN Append(ls, "running") ELSE ls

(* restart_kernel on the kernel manager and the connections. *)
RestartConnections(outcome) ==
    /\ manager # None
    /\ outcome = "ok" => Len(listeners) < MaxListeners
    /\ manager' = Some(restart_manager(manager[1], ManagerFailure(outcome)))
    /\ disk' = restart_disk(manager[1], disk, ManagerFailure(outcome))
    /\ listeners' = ReconnectListeners(listeners, outcome)
    /\ sock' = IF outcome = "ok" THEN Append(sock, <<>>) ELSE sock
    /\ chan' = IF outcome = "ok" THEN Append(chan, <<>>) ELSE chan
    /\ attached' = IF outcome = "ok" THEN Len(listeners) + 1 ELSE 0
    /\ UNCHANGED <<nextPath, spc, emitted, inputs, processed>>

(* restart_kernel on the notebook and the table of App. *)
RestartEffects(outcome) ==
    /\ cpc = "idle"
    /\ outcome \in RestartOutcomes
    /\ kernel_status' = "restarting"
    /\ executing_cells' = RestartTable(executing_cells)
    /\ stale' = stale \cup DOMAIN executing_cells
    /\ issuer' = EmptyMap
    /\ last' = [op |-> "restart", ok |-> outcome = "ok"]
    /\ UNCHANGED <<cells, selected_cell, yanked_cell, nextCellId, nextMsgId, shellVars>>

(* :restart (handler.rs:807-809): App::restart_kernel, app.rs:445-478.     *)
(* outcome is the point where kernel_manager.restart() returns Err,        *)
(* "connect_failed" (KernelClient::connect returns Err) or "ok".  The      *)
(* table is cleared before either fallible step.  This is the step as the  *)
(* notebook and the table see it, for the specifications that deliver      *)
(* kernel messages directly; ConsumeRestart is the step with the kernel    *)
(* manager and the connections.                                            *)
RestartKernel(outcome) ==
    /\ RestartEffects(outcome)
    /\ UNCHANGED envVars

(* :restart! (handler.rs:810-814): restart_kernel, then execute_all_cells  *)
(* unless the restart returned Err.                                        *)
RestartRunAll(outcome, failAt) ==
    /\ cpc = "idle"
    /\ outcome \in RestartOutcomes
    /\ failAt \in FailPoints(cells)
    /\ outcome # "ok" => failAt = None
    /\ LET tbl == RestartTable(executing_cells)
           nxt == nextMsgId
           r == IF outcome = "ok"
                THEN ExecuteAll(cells, tbl, nxt, failAt)
                ELSE [cells |-> cells, table |-> tbl, next |-> nxt,
                      sent |-> <<>>, ok |-> FALSE]
       IN
       /\ r.next <= MaxMsgs + 1
       /\ cells' = r.cells
       /\ executing_cells' = r.table
       /\ nextMsgId' = r.next
       /\ issuer' = IssuerAfter(issuer, cells, r.sent, r.table)
       /\ last' = [op |-> "restart_run_all", ok |-> r.ok, restarted |-> outcome = "ok"]
    /\ kernel_status' = "restarting"
    /\ stale' = stale \cup DOMAIN executing_cells
    /\ UNCHANGED <<envVars, selected_cell, yanked_cell, nextCellId, shellVars>>

(* Variant of InterruptTable: an interrupt that was sent cancels the       *)
(* entries of the requests in flight.                                      *)
InterruptCancels(tbl, sendOk) == IF sendOk THEN EmptyMap ELSE tbl

(* The table after kernel_client.interrupt() (client.rs:134-142): neither  *)
(* the client nor the two callers touch executing_cells.                   *)
InterruptTable(tbl, sendOk) == tbl

(* Ctrl+C outside a cell and :interrupt (app.rs:218-226,                   *)
(* handler.rs:815-818): one interrupt_request is built and sent; sendOk is *)
(* the result of the send, which `let _ =` drops.                          *)
Interrupt(sendOk) ==
    /\ cpc = "idle"
    /\ last' = [op |-> "interrupt", ok |-> sendOk]
    /\ executing_cells' = InterruptTable(executing_cells, sendOk)
    /\ issuer' = [m \in DOMAIN executing_cells' |-> issuer[m]]
    /\ UNCHANGED <<envVars, cells, selected_cell, kernel_status, yanked_cell, nextCellId, stale,
                   nextMsgId, shellVars>>

----------------------------------------------------------------------------
(* KernelClient on the shell channel, src/src/kernel/client.rs.  The       *)
(* kernel answers each shell request with one reply whose parent_header    *)
(* is the request's msg_id; nobody but complete() reads the shell socket.  *)

Deadline == 2      \* Duration::from_secs(2), in ticks

ReplyKinds(req) ==
    CASE req.kind = "execute_request" -> {"execute_reply"}
      [] req.kind = "kernel_info_request" -> {"kernel_info_reply"}
      [] req.kind = "complete_request" -> {"complete_reply", "error_reply"}

(* Variant of SendOnce: a send that failed is tried once more. *)
SendTwice(first, second) ==
    [attempts |-> IF first THEN 1 ELSE 2, sent |-> first \/ second]

(* connection.send(message).await.context(..)? in each operation of the    *)
(* client (client.rs:96-99, 107-110, 126-129, 137-140, 153-156): first is  *)
(* the result of the send, second what one more send would return.         *)
SendOnce(first, second) == [attempts |-> 1, sent |-> first]

(* What an operation of the client records about its send. *)
ClientCall(name, sendOk, s) ==
    [op |-> name, first |-> sendOk, ok |-> s.sent, attempts |-> s.attempts]

(* KernelClient::execute, client.rs:92-101 *)
ClientExecute(sendOk) ==
    /\ cpc = "idle"
    /\ nextMsgId <= MaxMsgs
    /\ LET s == SendOnce(sendOk, TRUE) IN
       /\ nextMsgId' = IF s.sent THEN nextMsgId + 1 ELSE nextMsgId
       /\ awaiting' = IF s.sent
                      THEN awaiting \cup {[id |-> NewMsgId(nextMsgId), kind |-> "execute_request"]}
                      ELSE awaiting
       /\ last' = ClientCall("client_execute", sendOk, s)
    /\ UNCHANGED <<envVars, appVars, shellQueue, cpc, cMsgId, cResult, cSkipped, now>>

(* KernelClient::request_kernel_info, client.rs:104-112.  The id of the    *)
(* request is not kept; its reply names msg_id 1 like that of App::new.    *)
ClientRequestInfo(sendOk) ==
    /\ cpc = "idle"
    /\ LET s == SendOnce(sendOk, TRUE) IN
       /\ awaiting' = IF s.sent
                      THEN awaiting \cup {[id |-> 1, kind |-> "kernel_info_request"]}
                      ELSE awaiting
       /\ last' = ClientCall("client_request_kernel_info", sendOk, s)
    /\ UNCHANGED <<envVars, appVars, nextMsgId, shellQueue, cpc, cMsgId, cResult, cSkipped, now>>

(* KernelClient::shutdown and KernelClient::interrupt, client.rs:123-142:  *)
(* one request on the control channel, whose replies nobody reads.         *)
ClientControl(name, sendOk) ==
    /\ cpc = "idle"
    /\ last' = ClientCall(name, sendOk, SendOnce(sendOk, TRUE))
    /\ UNCHANGED <<envVars, appVars, nextMsgId, shellVars>>

ClientShutdown(sendOk) == ClientControl("client_shutdown", sendOk)

ClientInterrupt(sendOk) == ClientControl("client_interrupt", sendOk)

(* The kernel replies to a request on the shell channel. *)
KernelReplies(req, kind) ==
    /\ req \in awaiting
    /\ kind \in ReplyKinds(req)
    /\ Len(shellQueue) < MaxQueue
    /\ shellQueue' = Append(shellQueue, [parent |-> Some(req.id), kind |-> kind])
    /\ awaiting' = awaiting \ {req}
    /\ last' = [op |-> "kernel_reply"]
    /\ UNCHANGED <<envVars, appVars, nextMsgId, cpc, cMsgId, cResult, cSkipped, now>>

(* A message with no parent_header arrives on the shell channel. *)
StrayReply(kind) ==
    /\ Len(shellQueue) < MaxQueue
    /\ shellQueue' = Append(shellQueue, [parent |-> None, kind |-> kind])
    /\ last' = [op |-> "stray_reply"]
    /\ UNCHANGED <<envVars, appVars, nextMsgId, awaiting, cpc, cMsgId, cResult, cSkipped, now>>

(* Variant of IsOurs: any reply that has a parent is taken as ours. *)
IsOursAnyParent(reply, msg_id) == reply.parent # None

(* client.rs:169-173 *)
IsOurs(reply, msg_id) == reply.parent # None /\ reply.parent[1] = msg_id

(* client.rs:175-180 *)
Accepts(reply, msg_id) == IsOurs(reply, msg_id) /\ reply.kind = "complete_reply"

(* Variant of Remaining: the deadline is never reached. *)
RemainingUnbounded(t) == 1

(* client.rs:161: deadline.saturating_duration_since(Instant::now()) *)
Remaining(t) == IF t >= Deadline THEN 0 ELSE Deadline - t

(* client.rs:162: remaining.is_zero() *)
Expired(t) == Remaining(t) = 0

(* complete(), client.rs:146-159: build and send the request, compute the  *)
(* deadline.  A failed send returns the error before the loop.             *)
CompleteStart(sendOk) ==
    /\ cpc = "idle"
    /\ nextMsgId <= MaxMsgs
    /\ cMsgId' = NewMsgId(nextMsgId)
    /\ cResult' = None
    /\ cSkipped' = FALSE
    /\ now' = 0
    /\ LET s == SendOnce(sendOk, TRUE) IN
       /\ nextMsgId' = IF s.sent THEN nextMsgId + 1 ELSE nextMsgId
       /\ IF s.sent
          THEN /\ cpc' = "check"
               /\ awaiting' = awaiting \cup {[id |-> NewMsgId(nextMsgId),
                                               kind |-> "complete_request"]}
          ELSE /\ cpc' = "send_error"
               /\ awaiting' = awaiting
       /\ last' = ClientCall("complete_start", sendOk, s)
    /\ UNCHANGED <<envVars, appVars, shellQueue>>

(* client.rs:161-164: top of the loop *)
CompleteCheck ==
    /\ cpc = "check"
    /\ cpc' = IF Expired(now) THEN "timeout" ELSE "reading"
    /\ last' = [op |-> "complete_check"]
    /\ UNCHANGED <<envVars, appVars, nextMsgId, shellQueue, awaiting, cMsgId, cResult, cSkipped, now>>

(* client.rs:166-182: the read returned a reply before the timer fired *)
CompleteRead ==
    /\ cpc = "reading"
    /\ shellQueue # <<>>
    /\ LET reply == Head(shellQueue) IN
       IF Accepts(reply, cMsgId)
       THEN /\ cpc' = "ok"
            /\ cResult' = Some(reply)
            /\ cSkipped' = cSkipped
       ELSE /\ cpc' = "check"
            /\ cResult' = cResult
            /\ cSkipped' = TRUE
    /\ shellQueue' = Tail(shellQueue)
    /\ last' = [op |-> "complete_read"]
    /\ UNCHANGED <<envVars, appVars, nextMsgId, awaiting, cMsgId, now>>

(* client.rs:183-185 *)
CompleteReadError ==
    /\ cpc = "reading"
    /\ cpc' = "read_error"
    /\ last' = [op |-> "complete_read_error"]
    /\ UNCHANGED <<envVars, appVars, nextMsgId, shellQueue, awaiting, cMsgId, cResult, cSkipped, now>>

(* client.rs:186-188: tokio::time::timeout elapsed *)
CompleteTimeout ==
    /\ cpc = "reading"
    /\ Remaining(now) = 0
    /\ cpc' = "timeout"
    /\ last' = [op |-> "complete_timeout"]
    /\ UNCHANGED <<envVars, appVars, nextMsgId, shellQueue, awaiting, cMsgId, cResult, cSkipped, now>>

(* Time passes while complete() is in its loop. *)
Tick ==
    /\ cpc \in {"check", "reading"}
    /\ now < Deadline
    /\ now' = now + 1
    /\ last' = [op |-> "tick"]
    /\ UNCHANGED <<envVars, appVars, nextMsgId, shellQueue, awaiting, cpc, cMsgId, cResult, cSkipped>>

CompleteDone == {"ok", "timeout", "read_error", "send_error"}

(* complete() has returned to its caller. *)
CompleteReturn ==
    /\ cpc \in CompleteDone
    /\ cpc' = "idle"
    /\ last' = [op |-> "complete_return"]
    /\ UNCHANGED <<envVars, appVars, nextMsgId, shellQueue, awaiting, cMsgId, cResult, cSkipped, now>>

----------------------------------------------------------------------------
(* The path of an iopub message to the foreground loop: the socket of a    *)
(* connection, its listener task (client.rs:64-78), the mpsc queue of      *)
(* KernelMessage, the task that forwards the queue (run_event_loop,        *)
(* event.rs:56-60, for the connection of App::new; the task spawned at     *)
(* app.rs:462-470 for a connection made by restart_kernel), the AppEvent   *)
(* channel and handle_event.  run_event_loop is running: the receivers of  *)
(* both kinds of queue exist.  The kernel numbers what it publishes.       *)

IoPub(n, m) == [kind |-> "IoPub", seq |-> n, msg |-> m]
IoPubError == [kind |-> "IoPubError"]

(* What the kernel publishes here: its status broadcasts. *)
Published == [kind : {"status"}, parent : {None}, state : {"busy", "idle"}]

(* Variant of Send: the item is lost. *)
SendLost(q, item) == q

(* Variant of Send: the item overtakes what the queue holds. *)
SendFront(q, item) == <<item>> \o q

(* mpsc::UnboundedSender::send on a queue whose receiver exists. *)
Send(q, item) == Append(q, item)

(* Variant of ListenerStep: the loop goes on after a read error. *)
ListenerRetries(result) ==
    [state |-> "running", sent |-> IF result.ok THEN result.msg ELSE IoPubError]

(* One iteration of the listener loop (client.rs:65-77) on the result of   *)
(* iopub.read(): what it sends and whether it loops or breaks.             *)
ListenerStep(result) ==
    IF result.ok THEN [state |-> "running", sent |-> result.msg]
    ELSE [state |-> "done", sent |-> IoPubError]

(* The running kernel publishes a message; the socket of the connection    *)
(* made to this process receives it.                                       *)
KernelEmit(m) ==
    /\ manager # None
    /\ manager[1].process = "alive"
    /\ attached # 0
    /\ listeners[attached] = "running"
    /\ emitted < MaxEmit
    /\ emitted' = emitted + 1
    /\ sock' = [sock EXCEPT ![attached] = Append(@, IoPub(emitted + 1, m))]
    /\ last' = [op |-> "emit"]
    /\ UNCHANGED <<appVars, shellVars, nextMsgId, mgrVars, listeners, chan, attached,
                   eventQueue, inputs, processed>>

(* What a responsive kernel publishes on iopub while it serves a shell     *)
(* request: busy, the output of the code of an execute_request (one        *)
(* stream text), idle; each names the request as its parent.               *)
Served(req) ==
    LET status(v) == [kind |-> "status", parent |-> Some(req.id), state |-> v] IN
    IF req.kind = "execute_request"
    THEN <<status("busy"),
           [kind |-> "stream", parent |-> Some(req.id), name |-> "stdout", text |-> "hi"],
           status("idle")>>
    ELSE <<status("busy"), status("idle")>>

(* The kernel serves a request: it publishes on iopub, where the socket of *)
(* the connection receives the messages, and replies on the shell channel. *)
KernelServes(req) ==
    /\ req \in awaiting
    /\ manager # None
    /\ manager[1].process = "alive"
    /\ attached # 0
    /\ listeners[attached] = "running"
    /\ LET out == Served(req) IN
       /\ sock' = [sock EXCEPT ![attached] =
                      @ \o [i \in 1..Len(out) |-> IoPub(emitted + i, out[i])]]
       /\ emitted' = emitted + Len(out)
    /\ awaiting' = awaiting \ {req}
    /\ shellQueue' = Append(shellQueue, [parent |-> Some(req.id),
                                         kind |-> CHOOSE k \in ReplyKinds(req) : TRUE])
    /\ last' = [op |-> "serve"]
    /\ UNCHANGED <<appVars, nextMsgId, cpc, cMsgId, cResult, cSkipped, now, mgrVars,
                   listeners, chan, attached, eventQueue, inputs, processed>>

(* The step of listener l on the result of its read. *)
ListenerOn(l, result, rest) ==
    /\ listeners[l] = "running"
    /\ Len(chan[l]) < MaxQueue
    /\ LET r == ListenerStep(result) IN
       /\ listeners' = [listeners EXCEPT ![l] = r.state]
       /\ chan' = [chan EXCEPT ![l] = Send(@, r.sent)]
    /\ sock' = [sock EXCEPT ![l] = rest]
    /\ last' = [op |-> "listen", ok |-> result.ok, listener |-> l]
    /\ UNCHANGED <<appVars, shellVars, nextMsgId, mgrVars, attached, eventQueue,
                   emitted, inputs, processed>>

(* iopub.read() returns Ok(msg): client.rs:67-71 *)
ListenerRead(l) ==
    /\ sock[l] # <<>>
    /\ ListenerOn(l, [ok |-> TRUE, msg |-> Head(sock[l])], Tail(sock[l]))

(* iopub.read() returns Err: client.rs:72-75.  When the task ends its      *)
(* socket is dropped with what it holds.                                   *)
ListenerReadError(l) ==
    ListenerOn(l, [ok |-> FALSE], <<>>)

(* kernel_rx.recv() yields a message and the task sends it on as           *)
(* AppEvent::Kernel: event.rs:56-60, app.rs:464-468.                       *)
Forward(l) ==
    /\ chan[l] # <<>>
    /\ eventQueue' = Send(eventQueue, [ev |-> "Kernel", src |-> l, msg |-> Head(chan[l])])
    /\ chan' = [chan EXCEPT ![l] = Tail(@)]
    /\ last' = [op |-> "forward", listener |-> l]
    /\ UNCHANGED <<appVars, shellVars, nextMsgId, mgrVars, listeners, sock, attached,
                   emitted, inputs, processed>>

(* run_event_loop sends a terminal or tick event: event.rs:34-54, 62-66. *)
PushInput(event) ==
    /\ inputs < MaxInputs
    /\ inputs' = inputs + 1
    /\ eventQueue' = Send(eventQueue, event)
    /\ last' = [op |-> "input"]
    /\ UNCHANGED <<appVars, shellVars, nextMsgId, mgrVars, listeners, sock, chan,
                   attached, emitted, processed>>

PushTick == PushInput([ev |-> "Tick"])

(* The key that completes the command :restart. *)
PushKey == PushInput([ev |-> "Key", key |-> ":restart"])

(* The KernelMessage of an item as handle_kernel_message matches it. *)
AsKernelMessage(item) ==
    IF item.kind = "IoPub" THEN item.msg ELSE [kind |-> "iopub_error", parent |-> None]

(* handle_event on the head of the AppEvent channel: app.rs:205-214. *)
ConsumeKernel ==
    /\ eventQueue # <<>>
    /\ Head(eventQueue).ev = "Kernel"
    /\ KernelEffects(AsKernelMessage(Head(eventQueue).msg))
    /\ processed' = Append(processed, [src |-> Head(eventQueue).src,
                                       msg |-> Head(eventQueue).msg])
    /\ eventQueue' = Tail(eventQueue)
    /\ UNCHANGED <<mgrVars, listeners, sock, chan, attached, emitted, inputs>>

ConsumeTick ==
    /\ cpc = "idle"
    /\ eventQueue # <<>>
    /\ Head(eventQueue).ev = "Tick"
    /\ eventQueue' = Tail(eventQueue)
    /\ last' = [op |-> "tick"]
    /\ UNCHANGED <<appVars, shellVars, nextMsgId, mgrVars, listeners, sock, chan,
                   attached, emitted, inputs, processed>>

(* handle_key on :restart: App::restart_kernel with the kernel manager and *)
(* the connections.                                                        *)
ConsumeRestart(outcome) ==
    /\ eventQueue # <<>>
    /\ Head(eventQueue).ev = "Key"
    /\ RestartEffects(outcome)
    /\ RestartConnections(outcome)
    /\ eventQueue' = Tail(eventQueue)

----------------------------------------------------------------------------
(* The life of a KernelManager: start, restart, shutdown, drop, and the    *)
(* kernel process ending by itself.                                        *)

Failure(points) == {None} \cup {Some(f) : f \in points}

MgrStart(fail) ==
    /\ manager = None
    /\ nextPath <= MaxStarts
    /\ manager' = start_result(nextPath, fail)
    /\ disk' = start_disk(disk, nextPath, fail)
    /\ nextPath' = nextPath + 1
    /\ last' = [op |-> "start", fail |-> fail, effects |-> start_effects(fail)]
    /\ UNCHANGED <<appVars, shellVars, nextMsgId, pipeVars, spc>>

MgrRestart(fail) ==
    /\ manager # None
    /\ manager' = Some(restart_manager(manager[1], fail))
    /\ disk' = restart_disk(manager[1], disk, fail)
    /\ last' = [op |-> "restart", fail |-> fail]
    /\ UNCHANGED <<appVars, shellVars, nextMsgId, pipeVars, nextPath, spc>>

MgrShutdown(killed) ==
    /\ manager # None
    /\ killed \in kill_results(manager[1].process)
    /\ manager' = Some(shutdown_manager(manager[1]))
    /\ disk' = shutdown_disk(manager[1], disk)
    /\ last' = [op |-> "shutdown",
                before |-> manager[1].process,
                present |-> manager[1].connection_file_path \in DOMAIN disk,
                result |-> shutdown_result(killed,
                              remove_result(disk, manager[1].connection_file_path))]
    /\ UNCHANGED <<appVars, shellVars, nextMsgId, pipeVars, nextPath, spc>>

(* The manager is dropped: Drop removes the file, kill_on_drop kills the   *)
(* process.                                                                *)
MgrDrop ==
    /\ manager # None
    /\ manager' = None
    /\ disk' = drop_disk(manager[1], disk)
    /\ last' = [op |-> "drop",
                path |-> manager[1].connection_file_path,
                present |-> manager[1].connection_file_path \in DOMAIN disk,
                result |-> drop_result(remove_result(disk, manager[1].connection_file_path))]
    /\ UNCHANGED <<appVars, shellVars, nextMsgId, pipeVars, nextPath, spc>>

(* The kernel process ends by itself. *)
ProcessExits ==
    /\ manager # None
    /\ manager[1].process = "alive"
    /\ manager' = Some([manager[1] EXCEPT !.process = "exited"])
    /\ last' = [op |-> "exit"]
    /\ UNCHANGED <<appVars, shellVars, nextMsgId, pipeVars, disk, nextPath, spc>>

(* Variant of shutdown_continues: the error of the shutdown request is    *)
(* returned with `?`.                                                      *)
shutdown_returns_on_error(sendOk) == sendOk

(* `let _ = self.kernel_client.shutdown(false).await` (app.rs:624): the    *)
(* result of the request is discarded and App::shutdown goes on.           *)
shutdown_continues(sendOk) == TRUE

(* App::shutdown, app.rs:623-627, first await: KernelClient::shutdown      *)
(* sends one shutdown_request on the control channel (client.rs:123-131).  *)
AppShutdownSend(sendOk) ==
    /\ spc = "idle"
    /\ cpc = "idle"
    /\ manager # None
    /\ last' = ClientCall("client_shutdown", sendOk, SendOnce(sendOk, TRUE))
    /\ spc' = IF ~shutdown_continues(sendOk) THEN "done"
              ELSE IF sendOk THEN "sent" ELSE "send_failed"
    /\ UNCHANGED <<appVars, shellVars, nextMsgId, pipeVars, manager, disk, nextPath>>

(* App::shutdown, second await: KernelManager::shutdown kills the process  *)
(* and removes the connection file (app.rs:625, manager.rs:96-104).        *)
AppShutdownKill(killed) ==
    /\ spc \in {"sent", "send_failed"}
    /\ killed \in kill_results(manager[1].process)
    /\ manager' = Some(shutdown_manager(manager[1]))
    /\ disk' = shutdown_disk(manager[1], disk)
    /\ spc' = "done"
    /\ last' = [op |-> "app_shutdown",
                sent |-> spc = "sent",
                before |-> manager[1].process,
                result |-> shutdown_result(killed,
                              remove_result(disk, manager[1].connection_file_path))]
    /\ UNCHANGED <<appVars, shellVars, nextMsgId, pipeVars, nextPath>>

----------------------------------------------------------------------------
(* Initial states: App::new, app.rs:130-202.  The notebook is              *)
(* Notebook::new() (one empty code cell) or one loaded from a file; every  *)
(* loaded cell is Idle (model.rs:251-283); the loaded notebooks used here  *)
(* carry no saved outputs.  request_kernel_info has taken msg_id 1.        *)

Loaded(id, type) == [new_code(id) EXCEPT !.cell_type = type]

InitialNotebooks == { <<new_code(1)>> }

InitWith(notebooks) ==
    /\ cells \in notebooks
    /\ selected_cell = 0
    /\ executing_cells = EmptyMap
    /\ kernel_status = "starting"
    /\ yanked_cell = None
    /\ nextMsgId = 2
    /\ nextCellId = Len(cells) + 1
    /\ issuer = EmptyMap
    /\ stale = {}
    /\ last = [op |-> "init"]
    /\ shellQueue = <<>>
    /\ awaiting = {[id |-> 1, kind |-> "kernel_info_request"]}
    /\ cpc = "idle"
    /\ cMsgId = 0
    /\ cResult = None
    /\ cSkipped = FALSE
    /\ now = 0
    /\ listeners = <<"running">>
    /\ sock = <<<<>>>>
    /\ chan = <<<<>>>>
    /\ attached = 1
    /\ eventQueue = <<>>
    /\ emitted = 0
    /\ inputs = 0
    /\ processed = <<>>
    /\ manager = Some(Started(1))
    /\ disk = FileWritten(NoFiles, 1, to_string_pretty(ConnectionInfo(1)))
    /\ nextPath = 2
    /\ spc = "idle"

Init == InitWith(InitialNotebooks)

(* The foreground loop while the user edits the list of code cells and     *)
(* executes cells; the events are stream text and the idle status.         *)
Next ==
    \/ \E msg \in CoreMessages : HandleKernelMessage(msg)
    \/ \E n \in 0..(MaxCells - 1) : SelectCell(n)
    \/ InsertBelow
    \/ InsertAbove
    \/ DeleteCell
    \/ YankCell
    \/ PasteBelow
    \/ PasteAbove
    \/ \E sendOk \in BOOLEAN : ExecuteCell(sendOk)
    \/ \E failAt \in FailPoints(cells) : RunAll(failAt)

Spec == Init /\ [][Next]_vars

(* The foreground loop on the notebook of Notebook::new(), with every      *)
(* payload of every event kind, execution, restart, interrupt and the      *)
(* change of the cell's type.                                              *)
OutputNext ==
    \/ \E msg \in KernelMessages : HandleKernelMessage(msg)
    \/ \E sendOk \in BOOLEAN : ExecuteCell(sendOk)
    \/ \E failAt \in FailPoints(cells) : RunAll(failAt)
    \/ \E outcome \in RestartOutcomes : RestartKernel(outcome)
    \/ \E outcome \in RestartOutcomes, failAt \in FailPoints(cells) :
          RestartRunAll(outcome, failAt)
    \/ \E sendOk \in BOOLEAN : Interrupt(sendOk)
    \/ ToggleType

OutputSpec == Init /\ [][OutputNext]_vars

(* The foreground loop on a notebook of two code cells that no key edits.  *)
PairNext ==
    \/ \E msg \in PairMessages : HandleKernelMessage(msg)
    \/ \E n \in 0..(MaxCells - 1) : SelectCell(n)
    \/ \E sendOk \in BOOLEAN : ExecuteCell(sendOk)
    \/ \E failAt \in FailPoints(cells) : RunAll(failAt)

PairSpec == InitWith({<<new_code(1), Loaded(2, "Code")>>}) /\ [][PairNext]_vars

(* The foreground loop on two code cells when the kernel sends the echo   *)
(* of the input, its status broadcasts, stream text and results.           *)
EchoMessages ==
    {m \in KernelMessages :
        \/ m.kind = "execute_input"
        \/ m.kind = "status" /\ m.parent = None
        \/ m.kind \in {"stream", "execute_result"} /\ OnePayload(m)}

EchoNext ==
    \/ \E msg \in EchoMessages : HandleKernelMessage(msg)
    \/ \E n \in 0..(MaxCells - 1) : SelectCell(n)
    \/ \E sendOk \in BOOLEAN : ExecuteCell(sendOk)

EchoSpec == InitWith({<<new_code(1), Loaded(2, "Code")>>}) /\ [][EchoNext]_vars

CompleteNext ==
    \/ \E sendOk \in BOOLEAN : ClientExecute(sendOk)
    \/ \E req \in awaiting, kind \in {"execute_reply", "kernel_info_reply",
                                      "complete_reply", "error_reply"} :
          KernelReplies(req, kind)
    \/ StrayReply("complete_reply")
    \/ \E sendOk \in BOOLEAN : CompleteStart(sendOk)
    \/ CompleteCheck
    \/ CompleteRead
    \/ CompleteReadError
    \/ CompleteTimeout
    \/ Tick
    \/ CompleteReturn

CompleteSpec == Init /\ [][CompleteNext]_vars

(* Time passes, and the task running complete() is scheduled. *)
CompleteFairSpec ==
    /\ CompleteSpec
    /\ WF_vars(Tick)
    /\ WF_vars(CompleteCheck)
    /\ WF_vars(CompleteTimeout)
    /\ WF_vars(CompleteReturn)

(* The events of the kernel on their way to the foreground loop, with     *)
(* ticks and the restart command between them.                             *)
PipeNext ==
    \/ \E m \in Published : KernelEmit(m)
    \/ \E l \in DOMAIN listeners : ListenerRead(l)
    \/ \E l \in DOMAIN listeners : ListenerReadError(l)
    \/ \E l \in DOMAIN listeners : Forward(l)
    \/ PushTick
    \/ PushKey
    \/ ConsumeKernel
    \/ ConsumeTick
    \/ \E outcome \in RestartOutcomes : ConsumeRestart(outcome)

PipeSpec == Init /\ [][PipeNext]_vars

(* Every operation of the client, and complete() in its loop. *)
ClientNext ==
    \/ CompleteNext
    \/ \E sendOk \in BOOLEAN : ClientRequestInfo(sendOk)
    \/ \E sendOk \in BOOLEAN : ClientShutdown(sendOk)
    \/ \E sendOk \in BOOLEAN : ClientInterrupt(sendOk)

ClientSpec == Init /\ [][ClientNext]_vars

(* complete() called from the foreground loop (request_completion,        *)
(* app.rs:580-612, awaited by handle_key) while the kernel publishes and   *)
(* the listener and run_event_loop fill the AppEvent channel.              *)
WaitNext ==
    \/ \E m \in Published : KernelEmit(m)
    \/ \E l \in DOMAIN listeners : ListenerRead(l)
    \/ \E l \in DOMAIN listeners : Forward(l)
    \/ ConsumeKernel
    \/ \E sendOk \in BOOLEAN : CompleteStart(sendOk)
    \/ \E req \in awaiting : KernelReplies(req, "complete_reply")
    \/ CompleteCheck
    \/ CompleteRead
    \/ CompleteTimeout
    \/ Tick
    \/ CompleteReturn

WaitSpec == Init /\ [][WaitNext]_vars

(* The client of App::new and a responsive kernel: start, connect and      *)
(* request_kernel_info are done (Init), execute requests follow.           *)
LiveNext ==
    \/ \E sendOk \in BOOLEAN : ClientExecute(sendOk)
    \/ \E req \in awaiting : KernelServes(req)
    \/ ListenerRead(1)
    \/ Forward(1)
    \/ ConsumeKernel

(* The kernel serves what it was sent, and the listener task and           *)
(* run_event_loop are scheduled.                                           *)
LiveSpec ==
    /\ Init
    /\ [][LiveNext]_vars
    /\ WF_vars(\E req \in awaiting : KernelServes(req))
    /\ WF_vars(ListenerRead(1))
    /\ WF_vars(Forward(1))

(* The foreground loop on loaded notebooks of two cells of any type. *)
CellTypes == {"Code", "Markdown", "Raw"}

MixedNotebooks == {<<Loaded(1, a), Loaded(2, b)>> : a, b \in CellTypes}

MixedSpec == InitWith(MixedNotebooks) /\ [][PairNext]_vars

(* The kernel manager on its own. *)
ManagerNext ==
    \/ \E fail \in Failure(StartFailures) : MgrStart(fail)
    \/ \E fail \in Failure(RestartFailures) : MgrRestart(fail)
    \/ \E killed \in Results : MgrShutdown(killed)
    \/ MgrDrop
    \/ ProcessExits

ManagerSpec == Init /\ [][ManagerNext]_vars

(* The foreground loop up to and through App::shutdown: cells are          *)
(* executed, kernel messages handled and the kernel restarted until the    *)
(* application shuts down; the kernel process may end at any moment, in    *)
(* particular when it has received the shutdown request.                   *)
ShutdownNext ==
    \/ spc = "idle" /\ \E msg \in CoreMessages : HandleKernelMessage(msg)
    \/ spc = "idle" /\ \E sendOk \in BOOLEAN : ExecuteCell(sendOk)
    \/ spc = "idle" /\ \E fail \in Failure(RestartFailures) : MgrRestart(fail)
    \/ ProcessExits
    \/ \E sendOk \in BOOLEAN : AppShutdownSend(sendOk)
    \/ \E killed \in Results : AppShutdownKill(killed)

ShutdownSpec == Init /\ [][ShutdownNext]_vars

----------------------------------------------------------------------------
(* Properties of PairSpec. *)

Indices(cs) == 0..(Len(cs) - 1)

(* C1: while the cell list is unchanged, a stream, execute_result or       *)
(* status event whose parent is an in-flight execute request changes       *)
(* nothing but the outputs, execution count and execution state of the     *)
(* cell that sent the request: every other cell is left as it was, and no  *)
(* entry of another request leaves the table.                              *)
C1_NoCrossContamination ==
    [][\A msg \in PairMessages :
          (HandleKernelMessage(msg) /\ msg.parent # None
              /\ msg.parent[1] \in DOMAIN executing_cells)
          => LET p == msg.parent[1] IN
             /\ Len(cells') = Len(cells)
             /\ \A i \in Indices(cells) :
                   /\ At(cells, i).id # issuer[p] => At(cells', i) = At(cells, i)
                   /\ At(cells', i).id = At(cells, i).id
                   /\ At(cells', i).cell_type = At(cells, i).cell_type
             /\ \A q \in DOMAIN executing_cells \ {p} :
                   q \in DOMAIN executing_cells' /\ executing_cells'[q] = executing_cells[q]
    ]_vars

(* Both cells are Running under different requests and an event of the     *)
(* first cell's request has just been applied to it alone.                 *)
C1_Witness ==
    /\ last.op = "kernel" /\ last.hit = "hit"
    /\ Len(cells) = 2
    /\ At(cells, 0).execution_state = "Running" /\ At(cells, 0).outputs # <<>>
    /\ At(cells, 1).execution_state = "Running" /\ At(cells, 1).outputs = <<>>
    /\ \E p, q \in DOMAIN executing_cells :
          executing_cells[p] = 0 /\ executing_cells[q] = 1

(* The execute requests a run-all sends before the send for failAt fails.  *)
SentBefore(cs, failAt) ==
    IF failAt = None THEN CodeIndices(cs)
    ELSE {i \in CodeIndices(cs) : i < failAt[1]}

(* C3: every successful execute call, of one cell or within a run-all,     *)
(* adds exactly one entry to executing_cells and keeps the entries that    *)
(* were there; the ids it adds are pairwise distinct, and no id that an    *)
(* earlier send used is ever the key of a new entry.                       *)
C3_OneEntryPerExecute ==
    [][LET new == DOMAIN executing_cells' \ DOMAIN executing_cells
           kept == \A q \in DOMAIN executing_cells :
                      q \in DOMAIN executing_cells'
                      /\ executing_cells'[q] = executing_cells[q]
       IN
       /\ new \cap IssuedIds = {}
       /\ (ExecuteCell(TRUE) /\ At(cells, selected_cell).cell_type = "Code")
             => Cardinality(new) = 1 /\ kept
       /\ \A failAt \in FailPoints(cells) :
             RunAll(failAt)
             => Cardinality(new) = Cardinality(SentBefore(cells, failAt)) /\ kept
    ]_vars

(* A run-all of two cells has just succeeded while an earlier execute      *)
(* request was still in flight: three entries under three ids.             *)
C3_Witness ==
    /\ last.op = "run_all" /\ last.ok
    /\ Cardinality(DOMAIN executing_cells) = 3

(* The cells, table and kernel status after handle_kernel_message has      *)
(* processed the events of evs in order.                                   *)
RECURSIVE AfterEvents(_, _, _, _)
AfterEvents(cs, tbl, ks, evs) ==
    IF evs = <<>> THEN [cells |-> cs, table |-> tbl, status |-> ks]
    ELSE AfterEvents(KernelCells(cs, tbl, Head(evs)), KernelTable(tbl, Head(evs)),
                     KernelStatus(ks, Head(evs)), Tail(evs))

(* The scenario of C9 from the current state: cells a and b are Running    *)
(* under the in-flight requests pa and pb, a has no outputs yet, and the   *)
(* events are a status v without parent, stdout "hi" for pa, idle for pa.  *)
ScenarioStarts(a, b, pa, pb) ==
    /\ a # b
    /\ executing_cells[pa] = a /\ executing_cells[pb] = b
    /\ At(cells, a).execution_state = "Running" /\ At(cells, a).outputs = <<>>
    /\ At(cells, b).execution_state = "Running"

ScenarioEvents(v, pa) ==
    << [kind |-> "status", parent |-> None, state |-> v],
       [kind |-> "stream", parent |-> Some(pa), name |-> "stdout", text |-> "hi"],
       [kind |-> "status", parent |-> Some(pa), state |-> "idle"] >>

ScenarioUnits(r, a, b, pb) ==
    /\ At(r.cells, a).execution_state = "Done"
    /\ At(r.cells, a).outputs = <<[t |-> "stream", name |-> "stdout", text |-> <<"hi">>]>>
    /\ At(r.cells, b) = At(cells, b)
    /\ pb \in DOMAIN r.table /\ r.table[pb] = b

(* C9 as amended: after the three events of the scenario, A is Done with   *)
(* the single stdout output "hi", B is unchanged and still Running with    *)
(* its entry in the table, and the kernel status is "idle", the value of   *)
(* the last status event processed, whatever the broadcast carried.        *)
C9_ScenarioStatusIdle ==
    \A a, b \in Indices(cells), pa, pb \in DOMAIN executing_cells, v \in StatusValues :
        ScenarioStarts(a, b, pa, pb)
        => LET r == AfterEvents(cells, executing_cells, kernel_status,
                                ScenarioEvents(v, pa))
           IN ScenarioUnits(r, a, b, pb) /\ r.status = "idle"

(* C9 as stated: as above, but the kernel status afterwards is the value   *)
(* the broadcast carried.                                                  *)
C9_ScenarioStatusBroadcast ==
    \A a, b \in Indices(cells), pa, pb \in DOMAIN executing_cells, v \in StatusValues :
        ScenarioStarts(a, b, pa, pb)
        => LET r == AfterEvents(cells, executing_cells, kernel_status,
                                ScenarioEvents(v, pa))
           IN ScenarioUnits(r, a, b, pb) /\ r.status = v

(* The scenario has run: idle for A's request was the last event, A is     *)
(* Done with stdout "hi", B is Running with its entry, the status is idle. *)
C9_Witness ==
    /\ last.op = "kernel" /\ last.hit = "hit"
    /\ At(cells, 0).execution_state = "Done"
    /\ At(cells, 0).outputs = <<[t |-> "stream", name |-> "stdout", text |-> <<"hi">>]>>
    /\ At(cells, 1).execution_state = "Running" /\ At(cells, 1).outputs = <<>>
    /\ \E pb \in DOMAIN executing_cells : executing_cells[pb] = 1
    /\ \A p \in DOMAIN executing_cells : executing_cells[p] # 0
    /\ kernel_status = "idle"

----------------------------------------------------------------------------
(* Properties of OutputSpec.  handle_kernel_message replaces the cells and *)
(* the table by KernelCells and KernelTable; the properties below state    *)
(* what these yield for every message in every reachable state.            *)

(* C4: no event moves a cell out of the state Error; the idle status of an *)
(* in-flight request removes the entry of that request, and a cell in      *)
(* Error that the entry names stays in Error and does not become Done.     *)
C4_ErrorSticky ==
    \A msg \in KernelMessages :
        LET after == KernelCells(cells, executing_cells, msg)
            table == KernelTable(executing_cells, msg)
        IN
        /\ Len(after) = Len(cells)
        /\ \A i \in Indices(cells) :
              At(cells, i).execution_state = "Error"
              => At(after, i).execution_state = "Error"
        /\ (msg.kind = "status" /\ msg.state = "idle" /\ msg.parent # None
               /\ msg.parent[1] \in DOMAIN executing_cells)
              => msg.parent[1] \notin DOMAIN table

(* The idle status of the request has just been processed after its error  *)
(* event: the entry is gone and the cell is in Error.                      *)
C4_Witness ==
    /\ last.op = "kernel" /\ last.hit = "hit"
    /\ executing_cells = EmptyMap
    /\ At(cells, 0).execution_state = "Error"
    /\ \E k \in 1..Len(At(cells, 0).outputs) : At(cells, 0).outputs[k].t = "error"

(* C5: right after restart_kernel the table is empty, whether the restart  *)
(* succeeded or failed; no id the restart cleared is a key of the table    *)
(* again; and an event whose parent is such an id changes no cell and      *)
(* leaves the table as it is.                                              *)
C5_RestartClearsTable ==
    /\ last.op = "restart" => executing_cells = EmptyMap
    /\ (last.op = "restart_run_all" /\ ~last.restarted) => executing_cells = EmptyMap
    /\ DOMAIN executing_cells \cap stale = {}
    /\ \A msg \in KernelMessages :
          (msg.parent # None /\ msg.parent[1] \in stale)
          => /\ KernelCells(cells, executing_cells, msg) = cells
             /\ KernelTable(executing_cells, msg) = executing_cells

(* An event of a request that a restart cleared has just been processed    *)
(* while its cell was still shown Running.                                 *)
C5_Witness ==
    /\ last.op = "kernel" /\ last.hit = "stale"
    /\ stale # {}
    /\ At(cells, 0).execution_state = "Running"

(* The records of outs that hold the text of stream name. *)
StreamRecords(outs, name) ==
    {k \in 1..Len(outs) : outs[k].t = "stream" /\ outs[k].name = name}

(* C8: two consecutive stream events with the same name and the same       *)
(* in-flight parent leave exactly one record for that name in the cell's   *)
(* outputs; its text is the text the cell already held for that name (none *)
(* on a cell that had no such record) followed by the first event's text   *)
(* and then the second's.                                                  *)
C8_StreamConcatenation ==
    \A p \in DOMAIN executing_cells, name \in StreamNames, t1, t2 \in Texts :
        LET i == executing_cells[p]
            ev(t) == [kind |-> "stream", parent |-> Some(p), name |-> name, text |-> t]
            before == At(cells, i).outputs
            held == IF StreamRecords(before, name) = {} THEN <<>>
                    ELSE before[CHOOSE k \in StreamRecords(before, name) : TRUE].text
            after == At(AfterEvents(cells, executing_cells, kernel_status,
                                    <<ev(t1), ev(t2)>>).cells, i).outputs
        IN i < Len(cells)
           => /\ Cardinality(StreamRecords(after, name)) = 1
              /\ \A k \in StreamRecords(after, name) : after[k].text = held \o <<t1, t2>>
              /\ Len(after) = Len(before) + (IF StreamRecords(before, name) = {} THEN 1 ELSE 0)

(* Two stdout events of the request in flight have just been applied to a  *)
(* cell that had no output: one record holding both texts in order.        *)
C8_Witness ==
    /\ last.op = "kernel" /\ last.hit = "hit"
    /\ At(cells, 0).outputs = <<[t |-> "stream", name |-> "stdout", text |-> <<"hi", "yo">>]>>

(* C10: an event of any kind whose parent is absent, or is no key of the   *)
(* table, leaves the table and every cell as they are; the handler has a   *)
(* result for every such event.                                            *)
C10_UnmatchedEventIgnored ==
    \A msg \in KernelMessages :
        (msg.parent = None \/ msg.parent[1] \notin DOMAIN executing_cells)
        => /\ KernelCells(cells, executing_cells, msg) = cells
           /\ KernelTable(executing_cells, msg) = executing_cells

(* An event that matches no entry has just been processed while a request  *)
(* was in flight and its cell Running.                                     *)
C10_Witness ==
    /\ last.op = "kernel" /\ last.hit \in {"none", "miss"}
    /\ executing_cells # EmptyMap
    /\ At(cells, 0).execution_state = "Running"

----------------------------------------------------------------------------
(* Properties of CompleteSpec and CompleteFairSpec. *)

(* The reply is the complete_reply to the request msg_id. *)
Matches(reply, msg_id) ==
    reply.parent = Some(msg_id) /\ reply.kind = "complete_reply"

(* C6: complete() returns Ok only with a complete_reply whose parent is    *)
(* the msg_id of its own request; a reply it reads that has another        *)
(* parent, no parent or another content is taken off the channel and       *)
(* discarded, and the loop goes on without a result.                       *)
C6_OnlyMatchingReply ==
    [][/\ cpc' = "ok" => cResult' # None /\ Matches(cResult'[1], cMsgId')
       /\ (cpc = "reading" /\ cpc' \in {"ok", "check"})
             => LET reply == Head(shellQueue) IN
                /\ shellQueue # <<>>
                /\ shellQueue' = Tail(shellQueue)
                /\ IF Matches(reply, cMsgId)
                   THEN cpc' = "ok" /\ cResult' = Some(reply)
                   ELSE cpc' = "check" /\ cResult' = None
    ]_vars

(* complete() has returned its reply after discarding another one. *)
C6_Witness ==
    /\ cpc = "ok" /\ cSkipped
    /\ cResult = Some([parent |-> Some(cMsgId), kind |-> "complete_reply"])

(* C7: once complete() has sent its request it returns: with the reply,    *)
(* with a read error, or with the timeout error when the deadline is       *)
(* reached, also while other replies keep arriving.  At the deadline the   *)
(* top of the loop fails with the timeout and does not read again, the     *)
(* timeout is never reported before the deadline, and a read error ends    *)
(* the call in the step it occurs.                                         *)
C7_CompleteTerminates ==
    /\ (cpc \in {"check", "reading"}) ~> (cpc \in CompleteDone)
    /\ [][/\ (cpc = "check" /\ now >= Deadline /\ cpc' # cpc) => cpc' = "timeout"
          /\ (cpc # "timeout" /\ cpc' = "timeout") => now >= Deadline
          /\ (cpc' = "read_error") => cpc \in {"reading", "read_error"}
          /\ now' <= Deadline
       ]_vars

(* complete() has failed with the timeout after discarding a reply that    *)
(* was not its own.                                                        *)
C7_Witness ==
    /\ cpc = "timeout" /\ cSkipped /\ now = Deadline

----------------------------------------------------------------------------
(* Properties of Spec. *)

(* What an event does to the cell it is applied to. *)
Applied(cell, msg) ==
    CASE msg.kind = "stream" ->
            [cell EXCEPT !.outputs = StreamOutputs(@, msg.name, msg.text)]
      [] msg.kind = "status" /\ msg.state = "idle"
            /\ cell.execution_state = "Running" ->
            [cell EXCEPT !.execution_state = "Done"]
      [] OTHER -> cell

(* C2: an event whose parent is an in-flight execute request is applied to *)
(* the cell that sent the request, found by its id wherever it now is in   *)
(* the list, and to no other cell, also after cells were inserted,         *)
(* deleted or pasted since the request was sent.                           *)
C2_AppliedToIssuer ==
    [][\A msg \in CoreMessages :
          (HandleKernelMessage(msg) /\ msg.parent # None
              /\ msg.parent[1] \in DOMAIN executing_cells)
          => \A i \in Indices(cells) :
                At(cells', i) = IF At(cells, i).id = issuer[msg.parent[1]]
                                THEN Applied(At(cells, i), msg)
                                ELSE At(cells, i)
    ]_vars

----------------------------------------------------------------------------
(* Further properties of PairSpec. *)

(* C11: a status event with value idle whose parent is a key of the table  *)
(* removes exactly that entry, and sets the cell the entry names to Done   *)
(* if it is Running and leaves it as it is otherwise; no other cell        *)
(* changes.  A status event with another value removes no entry and        *)
(* changes no cell.                                                        *)
C11_IdleStatusCompletes ==
    \A p \in DOMAIN executing_cells, v \in StatusValues :
        LET ev == [kind |-> "status", parent |-> Some(p), state |-> v]
            after == KernelCells(cells, executing_cells, ev)
            table == KernelTable(executing_cells, ev)
            idx == executing_cells[p]
        IN IF v = "idle"
           THEN /\ table = [q \in DOMAIN executing_cells \ {p} |-> executing_cells[q]]
                /\ Len(after) = Len(cells)
                /\ \A i \in Indices(cells) :
                      At(after, i) =
                        IF i = idx /\ At(cells, i).execution_state = "Running"
                        THEN [At(cells, i) EXCEPT !.execution_state = "Done"]
                        ELSE At(cells, i)
           ELSE table = executing_cells /\ after = cells

(* The idle status of the first cell's request has just been processed:    *)
(* the cell is Done and has no entry, the second cell is Running with its  *)
(* entry.                                                                  *)
C11_Witness ==
    /\ last.op = "kernel" /\ last.hit = "hit"
    /\ At(cells, 0).execution_state = "Done" /\ At(cells, 0).outputs = <<>>
    /\ At(cells, 1).execution_state = "Running"
    /\ Cardinality(DOMAIN executing_cells) = 1
    /\ \A p \in DOMAIN executing_cells : executing_cells[p] = 1

----------------------------------------------------------------------------
(* Further properties of OutputSpec. *)

(* C12: an interrupt, whether its send succeeds or fails, leaves the table *)
(* and every cell as they are; an entry leaves the table only in a step    *)
(* that handles an idle status whose parent is the key of the entry, or    *)
(* in a restart.                                                           *)
C12_InterruptKeepsTable ==
    [][/\ \A sendOk \in BOOLEAN :
             Interrupt(sendOk) => cells' = cells /\ executing_cells' = executing_cells
       /\ \A q \in DOMAIN executing_cells \ DOMAIN executing_cells' :
             \/ HandleKernelMessage([kind |-> "status", parent |-> Some(q),
                                     state |-> "idle"])
             \/ \E outcome \in RestartOutcomes : RestartKernel(outcome)
             \/ \E outcome \in RestartOutcomes, failAt \in FailPoints(cells) :
                   RestartRunAll(outcome, failAt)
    ]_vars

(* An interrupt has just been sent while a request was in flight: the      *)
(* entry is still there and the cell is still Running.                     *)
C12_Witness ==
    /\ last.op = "interrupt" /\ last.ok
    /\ executing_cells # EmptyMap
    /\ At(cells, 0).execution_state = "Running"

----------------------------------------------------------------------------
(* Properties of PipeSpec. *)

(* The items of a sequence of forwarded events. *)
Items(evs) == [i \in 1..Len(evs) |-> evs[i].msg]

(* Everything listener l has sent into its queue, oldest first: what the   *)
(* foreground loop has handled, what waits in the AppEvent channel and     *)
(* what waits in the queue.                                                *)
SentBy(l) ==
    Items(SelectSeq(processed, LAMBDA e : e.src = l))
    \o Items(SelectSeq(eventQueue, LAMBDA e : e.ev = "Kernel" /\ e.src = l))
    \o chan[l]

Markers(s) == {i \in DOMAIN s : s[i] = IoPubError}

(* C13: a listener that got a read error has put exactly one error marker  *)
(* into its queue and has terminated: the marker is the last item the      *)
(* listener ever sent, no listener has sent two markers, and a listener    *)
(* that sent a marker is not running.                                      *)
C13_OneMarkerThenStop ==
    \A l \in DOMAIN listeners :
        LET s == SentBy(l) IN
        /\ Cardinality(Markers(s)) <= 1
        /\ \A i \in Markers(s) : i = Len(s) /\ listeners[l] = "done"
        /\ listeners[l] = "done" => Markers(s) = {Len(s)}
        /\ listeners[l] = "done" => sock[l] = <<>>

(* The first listener read two messages and then got the error; the        *)
(* foreground loop has handled all three items, the marker last.           *)
C13_Witness ==
    /\ listeners[1] = "done"
    /\ Len(processed) = 3
    /\ \A i \in 1..3 : processed[i].src = 1
    /\ processed[3].msg = IoPubError
    /\ kernel_status = "idle"

(* C14: the kernel events that reach the foreground loop come from one     *)
(* listener at a time: once restart_kernel has made a new connection, only *)
(* the listener of that connection, the newest, has its items forwarded    *)
(* into the AppEvent channel.                                              *)
C14_OneListenerFeeds ==
    [][\A l \in DOMAIN listeners : Forward(l) => l = Len(listeners)]_vars

(* The messages of the kernel among the items of a sequence. *)
Messages(s) == SelectSeq(s, LAMBDA item : item.kind = "IoPub")

(* C15: the messages of one iopub stream keep the order in which the       *)
(* kernel published them on the whole path: along what the foreground loop *)
(* has handled, what waits in the AppEvent channel, what waits in the      *)
(* listener's queue and what the socket still holds, the numbers the       *)
(* kernel gave them increase, whatever ticks and keys lie between them.    *)
C15_EmissionOrder ==
    \A l \in DOMAIN listeners :
        LET s == Messages(SentBy(l) \o sock[l]) IN
        \A i, j \in DOMAIN s : i < j => s[i].seq < s[j].seq

(* The foreground loop has handled the first two messages of the stream    *)
(* and then a tick; the third message waits behind it.                     *)
C15_Witness ==
    /\ Len(processed) = 2
    /\ processed[1].msg.kind = "IoPub" /\ processed[1].msg.seq = 1
    /\ processed[2].msg.kind = "IoPub" /\ processed[2].msg.seq = 2
    /\ last.op = "tick"
    /\ eventQueue # <<>>
    /\ Head(eventQueue).ev = "Kernel"
    /\ Head(eventQueue).msg = IoPub(3, [kind |-> "status", parent |-> None, state |-> "idle"])

----------------------------------------------------------------------------
(* Properties of ManagerSpec. *)

(* The content start() writes into the connection file of a path. *)
WrittenByStart(path) == start_disk(NoFiles, path, None)[path]

(* C16: restart() changes neither connection_info nor                      *)
(* connection_file_path, whether it returns Ok or Err at any point; it     *)
(* writes no other file, and when its write returns Ok the file at the     *)
(* path holds what start() wrote there.                                    *)
C16_RestartKeepsDescriptor ==
    [][\A fail \in Failure(RestartFailures) :
          MgrRestart(fail) =>
             LET path == manager[1].connection_file_path IN
             /\ manager'[1].connection_info = manager[1].connection_info
             /\ manager'[1].connection_file_path = path
             /\ \A f \in (DOMAIN disk \cup DOMAIN disk') \ {path} :
                   f \in DOMAIN disk /\ f \in DOMAIN disk' /\ disk'[f] = disk[f]
             /\ fail \notin {Some("no_kernelspec"), Some("write_failed"),
                             Some("write_truncated")}
                   => path \in DOMAIN disk' /\ disk'[path] = WrittenByStart(path)
      ]_vars

(* A restart has succeeded on the manager of a second start, after a       *)
(* shutdown had removed its file.                                          *)
C16_Witness ==
    /\ last = [op |-> "restart", fail |-> None]
    /\ manager # None
    /\ manager[1].connection_file_path = 2
    /\ manager[1].connection_info = ConnectionInfo(2)
    /\ manager[1].process = "alive"
    /\ 2 \in DOMAIN disk
    /\ disk[2] = to_string_pretty(ConnectionInfo(2))

(* C17: shutdown() is idempotent.  From every state of the manager, one    *)
(* call leaves the process not alive and the connection file absent and    *)
(* returns Ok; a second call returns Ok and changes nothing more, also     *)
(* when the process had exited by itself or its file was already gone.     *)
C17_ShutdownIdempotent ==
    /\ manager # None =>
          LET m == manager[1]
              path == m.connection_file_path
              m1 == shutdown_manager(m)
              d1 == shutdown_disk(m, disk)
          IN
          /\ m1.process # "alive"
          /\ path \notin DOMAIN d1
          /\ \A f \in DOMAIN disk \ {path} : f \in DOMAIN d1 /\ d1[f] = disk[f]
          /\ shutdown_manager(m1) = m1
          /\ shutdown_disk(m1, d1) = d1
          /\ \A killed \in kill_results(m.process) :
                shutdown_result(killed, remove_result(disk, path)) = "Ok"
          /\ \A killed \in kill_results(m1.process) :
                shutdown_result(killed, remove_result(d1, path)) = "Ok"
    /\ last.op = "shutdown" =>
          /\ manager # None
          /\ manager[1].process # "alive"
          /\ manager[1].connection_file_path \notin DOMAIN disk
          /\ last.result = "Ok"

(* shutdown() has returned from a call made when an earlier call had       *)
(* already killed the process and removed the file.                        *)
C17_Witness ==
    /\ last.op = "shutdown"
    /\ last.before = "killed"
    /\ ~last.present
    /\ last.result = "Ok"
    /\ manager[1].process = "killed"
    /\ manager[1].connection_file_path \notin DOMAIN disk

(* C18: the connection file of a manager is on disk exactly while its      *)
(* kernel process can be addressed through it: a path holds a file if and  *)
(* only if a manager with that path exists and has not killed its process, *)
(* after start, restart, shutdown and drop, errors included.  A process    *)
(* that ended by itself counts as still covered by its file.               *)
C18_FileIffProcess ==
    \A path \in 1..MaxStarts :
        path \in DOMAIN disk
        <=> /\ manager # None
            /\ manager[1].connection_file_path = path
            /\ manager[1].process \in {"alive", "exited"}

----------------------------------------------------------------------------
(* Properties of ClientSpec. *)

ClientCalls ==
    {"client_execute", "client_request_kernel_info", "client_interrupt",
     "client_shutdown", "complete_start"}

(* C19: execute, request_kernel_info, interrupt, shutdown and complete     *)
(* each make one send attempt; the operation fails exactly when that send  *)
(* failed; and complete() whose send failed returns without having read    *)
(* the shell channel or waited.                                            *)
C19_OneSendAttempt ==
    /\ last.op \in ClientCalls => last.attempts = 1 /\ last.ok = last.first
    /\ last.op = "complete_start" /\ ~last.first => cpc = "send_error"
    /\ cpc = "send_error" => cResult = None /\ ~cSkipped /\ now = 0

(* The send of complete() failed while replies were waiting on the shell   *)
(* channel: complete() is about to return the error and has read none.     *)
C19_Witness ==
    /\ last.op = "complete_start"
    /\ ~last.first
    /\ cpc = "send_error"
    /\ Len(shellQueue) = 2

----------------------------------------------------------------------------
(* Restart and the cells that were running (OutputSpec). *)

(* C20: when restart_kernel has returned Ok, no cell is Running: a cell    *)
(* can be Running after a restart only through an execute issued after it. *)
C20_RestartEndsRunning ==
    last.op = "restart" /\ last.ok =>
        \A i \in Indices(cells) : At(cells, i).execution_state # "Running"

----------------------------------------------------------------------------
(* Properties of WaitSpec. *)

(* C21: while complete() waits for its reply the foreground loop goes on:  *)
(* when a kernel event is at the head of the AppEvent channel during the   *)
(* wait, the foreground loop can take it and apply it.                     *)
C21_ForegroundRunsDuringComplete ==
    /\ cpc \in {"check", "reading"}
    /\ eventQueue # <<>>
    /\ Head(eventQueue).ev = "Kernel"
    => ENABLED ConsumeKernel

----------------------------------------------------------------------------
(* Sending execute requests (PairSpec). *)

(* C22: a cell is cleared and set Running only together with the insert    *)
(* of its table entry: in a step of execute_selected_cell or of            *)
(* execute_all_cells every cell that changed got a new entry that maps to  *)
(* it, so a cell whose send failed is as it was before the call.           *)
C22_SentOnlyOnSuccess ==
    [][(\/ \E sendOk \in BOOLEAN : ExecuteCell(sendOk)
        \/ \E failAt \in FailPoints(cells) : RunAll(failAt))
       => \A i \in Indices(cells) :
             At(cells', i) # At(cells, i)
             => \E m \in DOMAIN executing_cells' \ DOMAIN executing_cells :
                   executing_cells'[m] = i
      ]_vars

----------------------------------------------------------------------------
(* Starting a kernel (ManagerSpec). *)

(* C23: start() for a kernel name that no discovered kernelspec carries    *)
(* returns its error straight away: no manager is returned, no port was    *)
(* reserved, no file was written and no process spawned, and the files on  *)
(* disk are those from before the call.                                    *)
C23_UnknownKernelFailsEarly ==
    [][\A fail \in {Some("no_kernelspecs"), Some("no_kernelspec")} :
          MgrStart(fail) =>
             /\ manager' = None
             /\ disk' = disk
             /\ last'.effects = {}
      ]_vars

(* start() has just failed for an unknown kernel name, after the manager   *)
(* of App::new was dropped.                                                *)
C23_Witness ==
    /\ last.op = "start"
    /\ last.fail = Some("no_kernelspec")
    /\ manager = None
    /\ disk = NoFiles

----------------------------------------------------------------------------
(* Properties of LiveSpec. *)

(* The queue of the first connection holds a message of the kernel with    *)
(* this content.                                                           *)
Arrived(m) == \E i \in DOMAIN chan[1] : chan[1][i].kind = "IoPub" /\ chan[1][i].msg = m

(* C24: with a kernel that serves its requests, the idle status provoked   *)
(* by the kernel_info_request of App::new eventually is in the queue that  *)
(* connect() returned the receiver of, and whenever an execute request was *)
(* sent, the stream text of its code eventually is in that queue.          *)
C24_EventsArrive ==
    /\ <>Arrived([kind |-> "status", parent |-> Some(1), state |-> "idle"])
    /\ \A id \in 2..MaxMsgs :
          ([id |-> id, kind |-> "execute_request"] \in awaiting)
          ~> Arrived([kind |-> "stream", parent |-> Some(id), name |-> "stdout",
                      text |-> "hi"])

(* The stream text of the first execute request is in the queue, after the *)
(* idle status of the kernel_info_request was handled.                     *)
C24_Witness ==
    /\ Arrived([kind |-> "stream", parent |-> Some(2), name |-> "stdout", text |-> "hi"])
    /\ kernel_status = "idle"
    /\ Len(processed) >= 2

----------------------------------------------------------------------------
(* Properties of MixedSpec. *)

(* C25: a run-all whose sends all succeed is one step of the foreground    *)
(* loop, in which no kernel event is handled.  It sends one request per    *)
(* code cell, in document order, with fresh ids; the table keeps its       *)
(* entries and gains one per code cell, mapped to that cell; every code    *)
(* cell is Running with no outputs; a markdown or raw cell is unchanged    *)
(* and has no new entry.                                                   *)
C25_RunAllDispatchesCodeCells ==
    [][RunAll(None) =>
         LET r == ExecuteAll(cells, executing_cells, nextMsgId, None)
             code == CodeIndices(cells)
             new == DOMAIN executing_cells' \ DOMAIN executing_cells
         IN
         /\ Len(r.sent) = Cardinality(code)
         /\ \A k \in 1..Len(r.sent) :
               /\ r.sent[k].id = nextMsgId + k - 1
               /\ r.sent[k].idx \in code
               /\ \A j \in 1..(k - 1) : r.sent[j].idx < r.sent[k].idx
         /\ nextMsgId' = nextMsgId + Cardinality(code)
         /\ new = nextMsgId..(nextMsgId' - 1)
         /\ \A m \in DOMAIN executing_cells :
               m \in DOMAIN executing_cells' /\ executing_cells'[m] = executing_cells[m]
         /\ \A i \in code :
               /\ Cardinality({m \in new : executing_cells'[m] = i}) = 1
               /\ At(cells', i).execution_state = "Running"
               /\ At(cells', i).outputs = <<>>
         /\ \A i \in Indices(cells) \ code :
               /\ At(cells', i) = At(cells, i)
               /\ \A m \in new : executing_cells'[m] # i
         /\ Len(cells') = Len(cells)
         /\ kernel_status' = kernel_status
      ]_vars

(* A run-all has succeeded on a markdown cell followed by a code cell that *)
(* was already waiting for an earlier request.                             *)
C25_Witness ==
    /\ last = [op |-> "run_all", ok |-> TRUE]
    /\ At(cells, 0).cell_type = "Markdown"
    /\ At(cells, 0).execution_state = "Idle"
    /\ At(cells, 1).cell_type = "Code"
    /\ At(cells, 1).execution_state = "Running"
    /\ At(cells, 1).outputs = <<>>
    /\ DOMAIN executing_cells = {2, 3}
    /\ executing_cells[2] = 1
    /\ executing_cells[3] = 1

----------------------------------------------------------------------------
(* The arms of handle_kernel_message on the outputs of a cell (OutputSpec). *)

(* The cell an event with parent m reaches and the cell as the event       *)
(* leaves it.                                                              *)
Target(m) == At(cells, executing_cells[m])
Reached(m, ev) == At(KernelCells(cells, executing_cells, ev), executing_cells[m])

(* The event changes no cell but the one its entry names, nothing of that  *)
(* cell but outputs and counter, and neither the table nor the kernel      *)
(* status.                                                                 *)
OutputOnly(m, ev) ==
    LET cs == KernelCells(cells, executing_cells, ev) IN
    /\ Len(cs) = Len(cells)
    /\ \A i \in Indices(cells) : i # executing_cells[m] => At(cs, i) = At(cells, i)
    /\ Reached(m, ev).execution_state = Target(m).execution_state
    /\ Reached(m, ev).cell_type = Target(m).cell_type
    /\ Reached(m, ev).id = Target(m).id
    /\ KernelTable(executing_cells, ev) = executing_cells
    /\ KernelStatus(kernel_status, ev) = kernel_status

(* C26: an execute_result whose parent is in the table appends one         *)
(* execute_result record to the cell and sets the cell's counter to the    *)
(* event's; a display_data whose parent is in the table appends one        *)
(* display_data record and leaves the counter; neither changes the cell's  *)
(* state, another cell, the table or the kernel status.                    *)
C26_ResultAndDisplay ==
    \A m \in DOMAIN executing_cells :
        executing_cells[m] < Len(cells) =>
            /\ \A c \in Counts :
                  LET ev == [kind |-> "execute_result", parent |-> Some(m), count |-> c] IN
                  /\ Reached(m, ev).outputs =
                        Append(Target(m).outputs,
                               [t |-> "execute_result", execution_count |-> c])
                  /\ Reached(m, ev).execution_count = Some(c)
                  /\ OutputOnly(m, ev)
            /\ LET ev == [kind |-> "display_data", parent |-> Some(m)] IN
               /\ Reached(m, ev).outputs = Append(Target(m).outputs, [t |-> "display_data"])
               /\ Reached(m, ev).execution_count = Target(m).execution_count
               /\ OutputOnly(m, ev)

(* The cell got the result numbered 2 and then a display_data while its    *)
(* request was in the table.                                               *)
C26_Witness ==
    /\ last = [op |-> "kernel", hit |-> "hit"]
    /\ At(cells, 0).outputs =
          <<[t |-> "execute_result", execution_count |-> 2], [t |-> "display_data"]>>
    /\ At(cells, 0).execution_count = Some(2)
    /\ At(cells, 0).execution_state = "Running"
    /\ executing_cells # EmptyMap

(* No cell of cs holds two stream records of one name. *)
OneRecordPerName(cs) ==
    \A i \in Indices(cs), name \in StreamNames :
        Cardinality(StreamRecords(At(cs, i).outputs, name)) <= 1

(* C27: a cell never holds two stream records of one stream name, and a    *)
(* stream event of a request in the table keeps it so whatever records     *)
(* (of another kind, of the other name) follow the record of its name in   *)
(* the cell it reaches.                                                    *)
C27_OneStreamRecordPerName ==
    /\ OneRecordPerName(cells)
    /\ \A m \in DOMAIN executing_cells, name \in StreamNames, text \in Texts :
          OneRecordPerName(KernelCells(cells, executing_cells,
              [kind |-> "stream", parent |-> Some(m), name |-> name, text |-> text]))

(* A stdout event and then a display_data of the request in the table      *)
(* reached the cell: the next stdout event finds its record followed by a  *)
(* record of another kind.                                                 *)
C27_Witness ==
    /\ last = [op |-> "kernel", hit |-> "hit"]
    /\ At(cells, 0).outputs =
          <<[t |-> "stream", name |-> "stdout", text |-> <<"hi">>], [t |-> "display_data"]>>
    /\ executing_cells # EmptyMap
    /\ \A m \in DOMAIN executing_cells : executing_cells[m] = 0

(* after is before with text appended to one of its stream records. *)
TextAppended(before, after) ==
    /\ Len(after) = Len(before)
    /\ \E k \in 1..Len(before) :
          /\ before[k].t = "stream"
          /\ after[k].t = "stream"
          /\ after[k].name = before[k].name
          /\ Len(after[k].text) > Len(before[k].text)
          /\ SubSeq(after[k].text, 1, Len(before[k].text)) = before[k].text
          /\ \A j \in 1..Len(before) : j # k => after[j] = before[j]

(* after is before, or before with one record more at its end, or before   *)
(* with text appended to one of its stream records.                        *)
Extends(before, after) ==
    \/ after = before
    \/ Len(after) = Len(before) + 1 /\ SubSeq(after, 1, Len(before)) = before
    \/ TextAppended(before, after)

(* The step empties no outputs but those of the cell an execute ran (the   *)
(* selected cell, every code cell for run-all) or of the cell whose type   *)
(* was toggled.                                                            *)
EmptiedByExecuteOrClear ==
    \A i \in Indices(cells) :
        (i < Len(cells') /\ At(cells, i).outputs # <<>> /\ At(cells', i).outputs = <<>>)
        => \/ last'.op \in {"execute", "toggle"} /\ i = selected_cell
           \/ last'.op \in {"run_all", "restart_run_all"} /\ At(cells, i).cell_type = "Code"

(* C28: whatever message handle_kernel_message takes, every cell's outputs *)
(* afterwards are its outputs before, or those with one record appended,   *)
(* or those with text appended to one stream record and every other record *)
(* as it was and where it was; and a step that empties the outputs of a    *)
(* cell is an execute of that cell or the clear of a type toggle.          *)
C28_EventsOnlyExtendOutputs ==
    /\ [](\A msg \in KernelMessages :
            LET cs == KernelCells(cells, executing_cells, msg) IN
            /\ Len(cs) = Len(cells)
            /\ \A i \in Indices(cells) : Extends(At(cells, i).outputs, At(cs, i).outputs))
    /\ [][EmptiedByExecuteOrClear]_vars

(* A display_data and then a stderr event of the request in the table      *)
(* reached the cell: the next stderr event appends to the second record    *)
(* and must leave the first alone.                                         *)
C28_Witness ==
    /\ last = [op |-> "kernel", hit |-> "hit"]
    /\ At(cells, 0).outputs =
          <<[t |-> "display_data"], [t |-> "stream", name |-> "stderr", text |-> <<"yo">>]>>
    /\ \E m \in DOMAIN executing_cells : executing_cells[m] = 0

----------------------------------------------------------------------------
(* The echo of the input (EchoSpec). *)

(* C29: an execute_input event, whatever its parent (none, a request in    *)
(* the table, a request no longer or never in it), leaves the table, every *)
(* cell (outputs, counter, state) and the kernel status as they were.      *)
C29_InputEchoIgnored ==
    \A p \in Parents :
        LET ev == [kind |-> "execute_input", parent |-> p] IN
        /\ KernelCells(cells, executing_cells, ev) = cells
        /\ KernelTable(executing_cells, ev) = executing_cells
        /\ KernelStatus(kernel_status, ev) = kernel_status

(* The kernel is busy, the selected cell runs its second request with its  *)
(* outputs cleared and the counter of its first result, and the last       *)
(* message handled had that request as parent and appended nothing: it was *)
(* the echo of the input.                                                  *)
C29_Witness ==
    /\ last = [op |-> "kernel", hit |-> "hit"]
    /\ kernel_status = "busy"
    /\ At(cells, 0).execution_state = "Running"
    /\ At(cells, 0).outputs = <<>>
    /\ At(cells, 0).execution_count = Some(1)
    /\ At(cells, 1).outputs = <<>>
    /\ DOMAIN executing_cells = {2, 3}
    /\ \A m \in DOMAIN executing_cells : executing_cells[m] = 0

----------------------------------------------------------------------------
(* The keys of executing_cells over time (OutputSpec). *)

(* Ids that a request has carried and that are no key of the table: those  *)
(* an idle status or a restart removed, and those never inserted.          *)
Absent == IssuedIds \ DOMAIN executing_cells

(* C30: no step puts an id back into the table that was issued before and  *)
(* is no key of it (removed by its idle status or by a restart), and no    *)
(* step rewrites the entry of an id that stays a key, so the table has one *)
(* entry per id; an idle status whose parent is such an absent id, as the  *)
(* second idle status of a request is, removes no entry and changes no     *)
(* cell.                                                                   *)
C30_RemovedIdsStayOut ==
    /\ [][/\ \A m \in Absent : m \notin DOMAIN executing_cells'
          /\ \A m \in DOMAIN executing_cells \cap DOMAIN executing_cells' :
                executing_cells'[m] = executing_cells[m]]_vars
    /\ [](\A m \in Absent :
            LET ev == [kind |-> "status", parent |-> Some(m), state |-> "idle"] IN
            /\ KernelTable(executing_cells, ev) = executing_cells
            /\ KernelCells(cells, executing_cells, ev) = cells)

(* Request 2 was completed by its idle status, the cell runs request 3,    *)
(* and a message whose parent is no key of the table and was not removed   *)
(* by a restart has just been handled, as the second idle status of        *)
(* request 2 is: the cell still runs and request 3 is still in the table.  *)
C30_Witness ==
    /\ last = [op |-> "kernel", hit |-> "miss"]
    /\ kernel_status = "idle"
    /\ stale = {}
    /\ DOMAIN executing_cells = {3}
    /\ At(cells, 0).execution_state = "Running"

----------------------------------------------------------------------------
(* Dropping the manager (ManagerSpec). *)

(* C31: dropping a manager leaves no file at its connection_file_path,     *)
(* whether or not shutdown() ran before, and leaves every other file as it *)
(* was; drop() returns also when shutdown() had already removed the file.  *)
C31_DropRemovesFile ==
    /\ manager # None =>
          LET m == manager[1]
              d1 == drop_disk(m, disk)
          IN
          /\ m.connection_file_path \notin DOMAIN d1
          /\ \A f \in DOMAIN disk \ {m.connection_file_path} :
                f \in DOMAIN d1 /\ d1[f] = disk[f]
          /\ drop_result(remove_result(disk, m.connection_file_path)) = "returns"
    /\ last.op = "drop" =>
          /\ manager = None
          /\ last.path \notin DOMAIN disk
          /\ last.result = "returns"

(* A manager whose file was on disk (no shutdown() had removed it) has     *)
(* just been dropped.                                                      *)
C31_Witness ==
    /\ last.op = "drop"
    /\ last.present
    /\ last.path = 1
    /\ manager = None
    /\ 1 \notin DOMAIN disk

----------------------------------------------------------------------------
(* A cell executed again while its earlier request is in flight (PairSpec). *)

(* C32: a cell is Done only when no entry of executing_cells maps to its   *)
(* index.                                                                  *)
C32_DoneOnlyWhenNoEntry ==
    \A i \in Indices(cells) :
        At(cells, i).execution_state = "Done"
        => \A m \in DOMAIN executing_cells : executing_cells[m] # i

(* The stream, result, display and error events with parent p. *)
OutputEvents(p) ==
    {ev \in IoPubEvents :
        ev.parent = Some(p)
        /\ ev.kind \in {"stream", "execute_result", "display_data", "error"}}

(* C33: when two requests of one cell are in the table, an output event    *)
(* of the earlier one adds nothing to the outputs of the cell, which the   *)
(* later execute cleared.                                                  *)
C33_OnlyLatestRequestWrites ==
    \A p, q \in DOMAIN executing_cells :
        (p < q /\ executing_cells[p] = executing_cells[q]
            /\ executing_cells[p] < Len(cells))
        => \A ev \in OutputEvents(p) :
              At(KernelCells(cells, executing_cells, ev), executing_cells[p]).outputs
                 = At(cells, executing_cells[p]).outputs

----------------------------------------------------------------------------
(* Entries that point past the end of the cell list (Spec). *)

(* C34: an event of any kind whose parent is in the table with an index    *)
(* past the end of the cell list, as a delete leaves it, changes no cell;  *)
(* if it is an idle status it removes its entry and no other, otherwise it *)
(* leaves the table as it was.                                             *)
C34_PastTheEndIsIgnored ==
    \A m \in DOMAIN executing_cells :
        executing_cells[m] >= Len(cells)
        => \A ev \in IoPubEvents :
              ev.parent = Some(m)
              => /\ KernelCells(cells, executing_cells, ev) = cells
                 /\ KernelTable(executing_cells, ev) =
                       IF ev.kind = "status" /\ ev.state = "idle"
                       THEN MapRemove(executing_cells, m)
                       ELSE executing_cells

(* The second cell was executed and deleted; the only request ever sent    *)
(* still maps to index 1 of a list of one cell, and an event with that     *)
(* request as parent has just been handled.                                *)
C34_Witness ==
    /\ last = [op |-> "kernel", hit |-> "hit"]
    /\ Len(cells) = 1
    /\ nextMsgId = 3
    /\ DOMAIN executing_cells = {2}
    /\ executing_cells[2] = 1
    /\ At(cells, 0).outputs = <<>>

----------------------------------------------------------------------------
(* start() failing after the write of the connection file (ManagerSpec). *)

(* C35: when start() has returned the error of kernelspec.command() or of  *)
(* spawn(), the connection file it wrote is no longer on disk.             *)
C35_FailedStartRemovesFile ==
    (last.op = "start" /\ last.fail \in {Some("command_failed"), Some("spawn_failed")})
    => (nextPath - 1) \notin DOMAIN disk

----------------------------------------------------------------------------
(* restart_kernel and the connections (PipeSpec). *)

(* C36: a restart_kernel that fails, in kernel_manager.restart() or in     *)
(* KernelClient::connect, leaves the connections as they were: the newest  *)
(* connection, the one of self.kernel_client, is the same, and no          *)
(* listener, queue or forwarding task is added.  One that succeeds adds    *)
(* exactly one connection with its queue and forwarding task behind those  *)
(* that were there.                                                        *)
C36_ClientReplacedOnlyOnSuccess ==
    [][\A outcome \in RestartOutcomes :
          ConsumeRestart(outcome)
          => IF outcome = "ok"
             THEN /\ Len(listeners') = Len(listeners) + 1
                  /\ Len(chan') = Len(chan) + 1
                  /\ Len(sock') = Len(sock) + 1
                  /\ SubSeq(listeners', 1, Len(listeners)) = listeners
                  /\ SubSeq(chan', 1, Len(chan)) = chan
                  /\ listeners'[Len(listeners')] = "running"
                  /\ chan'[Len(chan')] = <<>>
             ELSE /\ listeners' = listeners
                  /\ chan' = chan
                  /\ sock' = sock
      ]_vars

(* The manager restarted the process but connect() failed: restart_kernel  *)
(* has returned the error, the one connection of the start is still the    *)
(* only one, and it is not attached to the new process.                    *)
C36_Witness ==
    /\ last = [op |-> "restart", ok |-> FALSE]
    /\ manager # None
    /\ manager[1].process = "alive"
    /\ attached = 0
    /\ Len(listeners) = 1
    /\ Len(chan) = 1

----------------------------------------------------------------------------
(* App::shutdown (ShutdownSpec). *)

(* C37: the step of App::shutdown that kills the process and removes the   *)
(* connection file comes after the attempt to send the shutdown request,   *)
(* and comes whether that send succeeded or failed; the send changes       *)
(* neither the manager nor the files; and when App::shutdown is done the   *)
(* process is not alive and the file of the manager is gone.               *)
C37_RequestThenKill ==
    /\ [][/\ \A sendOk \in BOOLEAN :
               AppShutdownSend(sendOk)
               => manager' = manager /\ disk' = disk /\ spc' \in {"sent", "send_failed"}
          /\ (\/ DOMAIN disk' # DOMAIN disk
              \/ /\ last'.op # "restart"
                 /\ manager[1].process # "killed"
                 /\ manager'[1].process = "killed")
               => spc \in {"sent", "send_failed"} /\ spc' = "done"
          /\ spc' = "done" /\ spc # "done" => spc \in {"sent", "send_failed"}
         ]_vars
    /\ [](spc \in {"sent", "send_failed"}
            => \E killed \in Results : ENABLED AppShutdownKill(killed))
    /\ [](spc = "done"
            => /\ manager[1].process # "alive"
               /\ manager[1].connection_file_path \notin DOMAIN disk)

(* The shutdown request could not be sent, and App::shutdown has killed    *)
(* the process, which was alive, and removed the connection file.          *)
C37_Witness ==
    /\ spc = "done"
    /\ last.op = "app_shutdown"
    /\ ~last.sent
    /\ last.before = "alive"
    /\ last.result = "Ok"
    /\ manager[1].process = "killed"
    /\ manager[1].connection_file_path \notin DOMAIN disk

====
